---------------------------- MODULE Spec2Model ----------------------------
(***************************************************************************)
(* Verification model of the NBED strain-mapping code of stemtool          *)
(* (src/stemtool/nbed/nbed_strain.py): fit_nbed_disks and strain_in_ROI.   *)
(*                                                                         *)
(* Floating-point numbers are modelled as exact rationals extended with    *)
(* the IEEE values NaN and +/-infinity: a number is a record [n, d] with   *)
(* d > 0 and gcd(n, d) = 1 for a finite value, d = 0 and n = 0 for NaN,    *)
(* d = 0 and n = +/-1 for +/-infinity.  Rounding error is not modelled.    *)
(* numpy arrays are sequences; a 0-dimensional np.nan is the one-element   *)
(* sequence <<NaN>>, which is what np.ravel makes of it.                   *)
(***************************************************************************)
EXTENDS Integers, Sequences, FiniteSets, TLC

(***************************************************************************)
(* Extended rational arithmetic                                            *)
(***************************************************************************)
Abs(i) == IF i < 0 THEN -i ELSE i

Sgn(i) == IF i < 0 THEN -1 ELSE IF i > 0 THEN 1 ELSE 0

\* Euclid's algorithm.
gcd[a \in Nat, b \in Nat] == IF b = 0 THEN a ELSE gcd[b, a % b]

GCD(a, b) == gcd[a, b]

\* The number n/d in lowest terms; a zero denominator gives NaN (0/0) or
\* a signed infinity, as float division does with warnings suppressed.
Rat(n, d) ==
    IF d = 1 THEN [n |-> n, d |-> 1]
    ELSE IF d = 0 THEN [n |-> Sgn(n), d |-> 0]
    ELSE LET g == GCD(Abs(n), Abs(d))
         IN  [n |-> (Sgn(d) * n) \div g, d |-> Abs(d) \div g]

NaN == [n |-> 0, d |-> 0]

Zero == [n |-> 0, d |-> 1]

One == [n |-> 1, d |-> 1]

IsNaN(x) == x.d = 0 /\ x.n = 0

IsFinite(x) == x.d > 0

\* Arithmetic on finite values; NaN is contagious.
\* (Common factors are cancelled before multiplying to keep the integers small.)
RAdd(x, y) ==
    IF x.d = 1 /\ y.d = 1 THEN [n |-> x.n + y.n, d |-> 1]
    ELSE IF IsFinite(x) /\ IsFinite(y)
    THEN LET g == GCD(x.d, y.d)
         IN  Rat(x.n * (y.d \div g) + y.n * (x.d \div g), (x.d \div g) * y.d)
    ELSE NaN

RNeg(x) == [n |-> -x.n, d |-> x.d]

RSub(x, y) == RAdd(x, RNeg(y))

RMul(x, y) ==
    IF x.d = 1 /\ y.d = 1 THEN [n |-> x.n * y.n, d |-> 1]
    ELSE IF IsFinite(x) /\ IsFinite(y)
    THEN LET g1 == GCD(Abs(x.n), y.d)
             g2 == GCD(Abs(y.n), x.d)
         IN  Rat((x.n \div g1) * (y.n \div g2), (x.d \div g2) * (y.d \div g1))
    ELSE NaN

\* x / y as floats divide: finite/0 is a signed infinity, 0/0 is NaN.
RDiv(x, y) ==
    IF IsFinite(x) /\ IsFinite(y)
    THEN IF y.n = 0 THEN Rat(x.n, 0)
         ELSE RMul(x, Rat(y.d, y.n))
    ELSE NaN

\* x < y as floats compare: false whenever an operand is NaN.
RLess(x, y) ==
    IF IsNaN(x) \/ IsNaN(y) THEN FALSE
    ELSE IF x.d = 0 /\ y.d = 0 THEN x.n < y.n
    ELSE x.n * y.d < y.n * x.d

\* The sequence s with every entry evaluated (an array held in memory).
Array(s) == s \o <<>>

RECURSIVE RSum(_)
RSum(s) == IF s = <<>> THEN Zero ELSE RAdd(Head(s), RSum(Tail(s)))


RECURSIVE RSumSq(_, _)
RSumSq(s, m) ==
    IF s = <<>> THEN Zero
    ELSE RAdd(RMul(RSub(Head(s), m), RSub(Head(s), m)), RSumSq(Tail(s), m))

\* np.std(s) squared (the population variance); NaN for an empty array.
\* The standard deviation itself is the square root of this value, so it is
\* NaN, zero or positive exactly when this value is.
StdSq(s) ==
    IF s = <<>> THEN NaN
    ELSE LET k == Rat(Len(s), 1)
             m == RDiv(RSum(s), k)
         IN  RDiv(RSumSq(s, m), k)

(***************************************************************************)
(* fit_nbed_disks, lines 457-466: the per-seed intensity test              *)
(***************************************************************************)
\* reg: pixel (yy, xx) lies within distance disk_size of the seed
\* (posx, posy), the boundary included (line 460).
Reg(yy, xx, posx, posy, disk_size) ==
    ((yy - posy) ^ 2) + ((xx - posx) ^ 2) <= disk_size ^ 2

\* corr_image[reg]: the pixels selected by the mask, in row-major order,
\* from pixel (yy, xx) on.  Only the rows up to last_y and the columns
\* first_x .. last_x can meet the mask, so the others are not visited.
RECURSIVE Masked(_, _, _, _, _, _, _, _, _)
Masked(corr_image, posx, posy, disk_size, last_y, first_x, last_x, yy, xx) ==
    IF yy > last_y THEN <<>>
    ELSE IF xx > last_x
    THEN Masked(corr_image, posx, posy, disk_size, last_y, first_x, last_x,
                yy + 1, first_x)
    ELSE (IF Reg(yy, xx, posx, posy, disk_size)
          THEN <<corr_image[yy + 1][xx + 1]>> ELSE <<>>)
         \o Masked(corr_image, posx, posy, disk_size, last_y, first_x, last_x,
                   yy, xx + 1)

Min(a, b) == IF a < b THEN a ELSE b

Max(a, b) == IF a > b THEN a ELSE b

RECURSIVE Insert(_, _)
Insert(v, sorted) ==
    IF sorted = <<>> THEN <<v>>
    ELSE IF v <= Head(sorted) THEN <<v>> \o sorted
    ELSE <<Head(sorted)>> \o Insert(v, Tail(sorted))

\* The values of an array in ascending order.
RECURSIVE Sorted(_)
Sorted(values) ==
    IF values = <<>> THEN <<>> ELSE Insert(Head(values), Sorted(Tail(values)))

\* np.amax of a non-empty sorted array.
AMax(sorted) == Rat(sorted[Len(sorted)], 1)

\* np.median: the middle value, or the mean of the two middle values.
Median(sorted) ==
    LET k == Len(sorted)
    IN  IF k % 2 = 1 THEN Rat(sorted[(k + 1) \div 2], 1)
        ELSE Rat(sorted[k \div 2] + sorted[(k \div 2) + 1], 2)

PeakRatio(corr_image, posx, posy, disk_size) ==
    LET sorted == Sorted(Masked(corr_image, posx, posy, disk_size,
                                Min(posy + disk_size, Len(corr_image) - 1),
                                Max(posx - disk_size, 0),
                                Min(posx + disk_size, Len(corr_image[1]) - 1),
                                Max(posy - disk_size, 0), Max(posx - disk_size, 0)))
    IN  RDiv(AMax(sorted), Median(sorted))

\* A cutoff test that also rejects a ratio equal to 1 + nan_cutoff.
BelowOrAtCutoff(peak_ratio, nan_cutoff) ==
    RLess(peak_ratio, RAdd(One, nan_cutoff)) \/ peak_ratio = RAdd(One, nan_cutoff)

\* Line 462: the seed is left unfit when its peak ratio is below 1 + nan_cutoff.
BelowCutoff(peak_ratio, nan_cutoff) == RLess(peak_ratio, RAdd(One, nan_cutoff))

\* Lines 457-466.  par[ii] is what fit_gaussian2D_mask returns as par[0:2]
\* for seed ii (the fitted x and y); it is an input of the model.
FittedDiskList(corr_image, disk_size, positions, nan_cutoff, par) ==
    Array([ii \in 1 .. Len(positions) |->
             IF BelowCutoff(PeakRatio(corr_image, positions[ii][1], positions[ii][2],
                                      disk_size), nan_cutoff)
             THEN <<NaN, NaN>>
             ELSE par[ii]])


(***************************************************************************)
(* fit_nbed_disks, lines 467-514: the lattice solve                        *)
(***************************************************************************)
\* np.isnan over a list of (x, y) rows, counted per scalar (line 467).
RECURSIVE CountNaN(_)
CountNaN(rows) ==
    IF rows = <<>> THEN 0
    ELSE (IF IsNaN(Head(rows)[1]) THEN 1 ELSE 0)
         + (IF IsNaN(Head(rows)[2]) THEN 1 ELSE 0) + CountNaN(Tail(rows))

NanCount(fitted_disk_list) == CountNaN(fitted_disk_list) \div 2

\* The indices of the rows that survive the ~isnan mask of lines 473-478.
RECURSIVE KeptFrom(_, _)
KeptFrom(fitted_disk_list, ii) ==
    IF ii > Len(fitted_disk_list) THEN <<>>
    ELSE (IF IsNaN(fitted_disk_list[ii][1]) THEN <<>> ELSE <<ii>>)
         \o KeptFrom(fitted_disk_list, ii + 1)

Kept(fitted_disk_list) == KeptFrom(fitted_disk_list, 1)

\* The fitted positions with their y column as it is.
KeepY(fitted) == fitted

\* Line 480: the y column of the fitted positions is negated.
DiskLocations(fitted) ==
    Array([k \in 1 .. Len(fitted) |-> <<fitted[k][1], RNeg(fitted[k][2])>>])

\* A centre lookup that takes the first fitted disk, whatever its index.
FirstRows(diff_spots, disk_locations, k) == disk_locations

\* Lines 481-483: the rows whose Miller index is (0, 0), in order.
RECURSIVE CenterRows(_, _, _)
CenterRows(diff_spots, disk_locations, k) ==
    IF k > Len(diff_spots) THEN <<>>
    ELSE (IF diff_spots[k][1] = 0 /\ diff_spots[k][2] = 0
          THEN <<disk_locations[k]>> ELSE <<>>)
         \o CenterRows(diff_spots, disk_locations, k + 1)

RECURSIVE DotII(_, _, _)
DotII(m, c1, c2) ==
    IF m = <<>> THEN 0 ELSE Head(m)[c1] * Head(m)[c2] + DotII(Tail(m), c1, c2)

RECURSIVE DotIR(_, _, _, _)
DotIR(m, y, c1, c2) ==
    IF m = <<>> THEN Zero
    ELSE RAdd(RMul(Rat(Head(m)[c1], 1), Head(y)[c2]), DotIR(Tail(m), Tail(y), c1, c2))

\* np.linalg.lstsq(m, y, rcond=None)[0] for an integer k x 2 matrix m and a
\* k x 2 matrix y: the minimum-norm least-squares solution, ravelled as
\* <<b00, b01, b10, b11>>.  Rank 2 solves the normal equations, rank 1 uses
\* the pseudo-inverse m^T / |m|^2, rank 0 gives the zero matrix.
Lstsq(m, y) ==
    LET saa == DotII(m, 1, 1)
        sab == DotII(m, 1, 2)
        sbb == DotII(m, 2, 2)
        det == saa * sbb - sab * sab
        ay(c) == DotIR(m, y, 1, c)
        by(c) == DotIR(m, y, 2, c)
        R(i) == Rat(i, 1)
    IN  IF det # 0
        THEN Array([rc \in 1 .. 4 |->
                LET c == IF rc % 2 = 1 THEN 1 ELSE 2
                IN  IF rc <= 2
                    THEN RDiv(RSub(RMul(R(sbb), ay(c)), RMul(R(sab), by(c))), R(det))
                    ELSE RDiv(RSub(RMul(R(saa), by(c)), RMul(R(sab), ay(c))), R(det))])
        ELSE IF saa + sbb # 0
        THEN Array([rc \in 1 .. 4 |->
                LET c == IF rc % 2 = 1 THEN 1 ELSE 2
                IN  IF rc <= 2 THEN RDiv(ay(c), R(saa + sbb))
                    ELSE RDiv(by(c), R(saa + sbb))])
        ELSE <<Zero, Zero, Zero, Zero>>

\* np.matmul(diff_spots, lcbed), line 493.
CalcPoints(diff_spots, lcbed) ==
    Array([k \in 1 .. Len(diff_spots) |->
             <<RAdd(RMul(Rat(diff_spots[k][1], 1), lcbed[1]),
                    RMul(Rat(diff_spots[k][2], 1), lcbed[3])),
               RAdd(RMul(Rat(diff_spots[k][1], 1), lcbed[2]),
                    RMul(Rat(diff_spots[k][2], 1), lcbed[4]))>>])

\* The ratios fitted / predicted on axis c over all disks.
RECURSIVE AllRatios(_, _, _, _)
AllRatios(disk_locations, calc_points, c, k) ==
    IF k > Len(calc_points) THEN <<>>
    ELSE <<RDiv(disk_locations[k][c], calc_points[k][c])>>
         \o AllRatios(disk_locations, calc_points, c, k + 1)

\* Lines 494-505: the ratios fitted / predicted on axis c, taken over the
\* disks whose predicted displacement on that axis is not 0.
RECURSIVE Ratios(_, _, _, _)
Ratios(disk_locations, calc_points, c, k) ==
    IF k > Len(calc_points) THEN <<>>
    ELSE (IF calc_points[k][c] # Zero
          THEN <<RDiv(disk_locations[k][c], calc_points[k][c])>> ELSE <<>>)
         \o Ratios(disk_locations, calc_points, c, k + 1)

\* A threshold that also solves the lattice when exactly half are unfit.
AtLeastHalf(nancount, no_pos) == 2 * nancount <= no_pos

\* Line 488: the lattice is solved when fewer than half of the seeds are unfit.
EnoughDisks(nancount, no_pos) == 2 * nancount < no_pos

\* Lines 467-514: what fit_nbed_disks returns for the per-seed list all of
\* lines 457-466.  The result is the tuple of line 514 as a record; the
\* entries of fit_deviation are the squares of stdx and stdy (see StdSq).
SolveLattice(all, diff_spots) ==
    LET no_pos == Len(all)
        nancount == NanCount(all)
        kept == Kept(all)
        spots == Array([k \in 1 .. Len(kept) |-> diff_spots[kept[k]]])
        fitted == Array([k \in 1 .. Len(kept) |-> all[kept[k]]])
        locs == DiskLocations(fitted)
        center == CenterRows(spots, locs, 1)
        cx == center[1][1]
        cy == center[1][2]
        rel == Array([k \in 1 .. Len(locs) |->
                        <<RSub(locs[k][1], cx), RSub(locs[k][2], cy)>>])
        lcbed == Lstsq(spots, rel)
        calc == CalcPoints(spots, lcbed)
    IN  IF nancount = no_pos
        THEN [fitted_disk_list |-> all, center_position |-> <<NaN, NaN>>,
              fit_deviation |-> <<NaN>>, lcbed |-> <<NaN>>]
        ELSE IF Len(center) > 0
        THEN IF EnoughDisks(nancount, no_pos)
             THEN [fitted_disk_list |-> fitted,
                   center_position |-> <<cx, RNeg(cy)>>,
                   fit_deviation |-> <<StdSq(Ratios(rel, calc, 1, 1)),
                                       StdSq(Ratios(rel, calc, 2, 1))>>,
                   lcbed |-> lcbed]
             ELSE [fitted_disk_list |-> fitted,
                   center_position |-> <<cx, RNeg(cy)>>,
                   fit_deviation |-> <<NaN>>, lcbed |-> <<NaN>>]
        ELSE [fitted_disk_list |-> fitted, center_position |-> <<NaN>>,
              fit_deviation |-> <<NaN>>, lcbed |-> <<NaN>>]

\* fit_nbed_disks, lines 406-514.
FitNbedDisks(corr_image, disk_size, positions, diff_spots, nan_cutoff, par) ==
    SolveLattice(FittedDiskList(corr_image, disk_size, positions, nan_cutoff, par),
                 diff_spots)

(***************************************************************************)
(* strain_in_ROI, lines 626-653: reference inverse and strain components   *)
(***************************************************************************)
\* 2 x 2 matrices are ravelled: <<m00, m01, m10, m11>>.
MatMul(a, b) ==
    <<RAdd(RMul(a[1], b[1]), RMul(a[2], b[3])), RAdd(RMul(a[1], b[2]), RMul(a[2], b[4])),
      RAdd(RMul(a[3], b[1]), RMul(a[4], b[3])), RAdd(RMul(a[3], b[2]), RMul(a[4], b[4]))>>

Det(m) == RSub(RMul(m[1], m[4]), RMul(m[2], m[3]))

\* np.linalg.inv raises LinAlgError for a 0-dimensional argument (np.nan)
\* and for a singular matrix; it returns the inverse otherwise.
InvRaises(m) == Len(m) # 4 \/ Det(m) = Zero

\* An inverse with the off-diagonal entries exchanged.
MatInvSwapped(m) ==
    <<RDiv(m[4], Det(m)), RDiv(RNeg(m[3]), Det(m)),
      RDiv(RNeg(m[2]), Det(m)), RDiv(m[1], Det(m))>>

MatInv(m) ==
    LET d == Det(m)
    IN  <<RDiv(m[4], d), RDiv(RNeg(m[2]), d), RDiv(RNeg(m[3]), d), RDiv(m[1], d)>>

i_matrix == <<One, Zero, Zero, One>>

\* Line 648.
TPattern(pattern_axes, inverse_axes) == MatMul(pattern_axes, inverse_axes)

\* Line 649.
SPattern(t_pattern) == Array([k \in 1 .. 4 |-> RSub(t_pattern[k], i_matrix[k])])

\* Lines 650-653.
StrainXX(s_pattern) == RNeg(s_pattern[1])

\* A shear with the wrong sign on s_pattern[1, 0].
StrainXYDiff(s_pattern) == RNeg(RSub(s_pattern[2], s_pattern[3]))

StrainXY(s_pattern) == RNeg(RAdd(s_pattern[2], s_pattern[3]))

StrainTh(s_pattern) == RSub(s_pattern[2], s_pattern[3])

StrainYY(s_pattern) == RNeg(s_pattern[4])

\* Line 646: ~np.isnan(np.ravel(pattern_axes))[0].
AxesFitted(pattern_axes) == ~IsNaN(pattern_axes[1])

(***************************************************************************)
(* strain_in_ROI, lines 654-665: scatter, NaN-to-zero, Gaussian smoothing  *)
(***************************************************************************)
\* Bounds of the model: the scan grid is ScanSize x ScanSize, an ROI holds
\* at most MaxROI scan points.
ScanSize == 2

MaxROI == 2

NPix == ScanSize * ScanSize

\* Scan maps and the ROI mask are stored row-major: pixel (y, x), 0-based,
\* is entry y * ScanSize + x + 1.
PixIdx(y, x) == y * ScanSize + x + 1

\* The number of ROI points up to and including pixel p: the index boolean
\* mask indexing gives pixel p in data4D_ROI and in e_xx_ROI (lines 599, 654).
RECURSIVE RoiRank(_, _)
RoiRank(roi, p) ==
    IF p = 0 THEN 0 ELSE (IF roi[p] THEN 1 ELSE 0) + RoiRank(roi, p - 1)

NoOfDisks(roi) == RoiRank(roi, NPix)

\* e_xx_map[ROI] = e_xx_ROI (lines 654, 657, 660, 663).
ScatterROI(map, roi, e_roi) ==
    Array([p \in 1 .. NPix |-> IF roi[p] THEN e_roi[RoiRank(roi, p)] ELSE map[p]])

\* A substitution that leaves the NaN entries in place.
KeepNaN(map) == map

\* e_xx_map[np.isnan(e_xx_map)] = 0 (lines 655, 658, 661, 664).
NanToZero(map) ==
    Array([p \in 1 .. NPix |-> IF IsNaN(map[p]) THEN Zero ELSE map[p]])

\* scipy.ndimage.gaussian_filter(map, 1): a separable kernel of radius
\* int(4.0 * sigma + 0.5) = 4 with weights proportional to exp(-k^2 / 2),
\* here rounded to multiples of 1/256 with every weight kept positive
\* (0.399, 0.242, 0.054, 0.004, 0.0001), borders in 'reflect' mode.
GaussKernel == <<1, 1, 14, 62, 102, 62, 14, 1, 1>>

KernelRadius == (Len(GaussKernel) - 1) \div 2

KernelSum == RSum([k \in 1 .. Len(GaussKernel) |-> Rat(GaussKernel[k], 1)]).n

\* 'reflect' border mode: (d c b a | a b c d | d c b a).
Reflect(i, len) ==
    LET m == i % (2 * len) IN IF m < len THEN m ELSE 2 * len - 1 - m

\* The total weight with which source pixel (sy, sx) enters output pixel (y, x).
KernelWeight(y, x, sy, sx) ==
    LET offs == (-KernelRadius) .. KernelRadius
        wy == {i \in offs : Reflect(y + i, ScanSize) = sy}
        wx == {j \in offs : Reflect(x + j, ScanSize) = sx}
        RECURSIVE Sum(_)
        Sum(S) == IF S = {} THEN 0
                  ELSE LET k == CHOOSE k \in S : TRUE
                       IN  GaussKernel[k + KernelRadius + 1] + Sum(S \ {k})
    IN  Sum(wy) * Sum(wx)

\* KernelTable[p][q]: the weight of source pixel q in output pixel p.
KernelTable ==
    Array([p \in 1 .. NPix |->
        Array([q \in 1 .. NPix |->
            KernelWeight((p - 1) \div ScanSize, (p - 1) % ScanSize,
                         (q - 1) \div ScanSize, (q - 1) % ScanSize)])])

RECURSIVE LcmDen(_, _)
LcmDen(map, q) ==
    IF q = 0 THEN 1
    ELSE LET l == LcmDen(map, q - 1)
         IN  IF map[q].d = 0 THEN l ELSE (l \div GCD(l, map[q].d)) * map[q].d

\* The weighted sum of the numerators of map over the common denominator l.
RECURSIVE WeightedSum(_, _, _, _)
WeightedSum(map, weights, l, q) ==
    IF q = 0 THEN 0
    ELSE weights[q] * map[q].n * (l \div map[q].d) + WeightedSum(map, weights, l, q - 1)

\* The filtered map: each output pixel is the weighted mean of the source
\* pixels; it is NaN when a source pixel of non-zero weight is NaN.
GaussianFilter(map) ==
    LET l == LcmDen(map, NPix)
    IN  Array([p \in 1 .. NPix |->
            IF \E q \in 1 .. NPix : KernelTable[p][q] > 0 /\ ~IsFinite(map[q])
            THEN NaN
            ELSE Rat(WeightedSum(map, KernelTable[p], l, NPix),
                     l * KernelSum * KernelSum)])

(***************************************************************************)
(* Inputs                                                                  *)
(***************************************************************************)
\* Bounds: the distance in pixels between neighbouring seeds, the largest
\* value of a correlation pixel, the largest entry
\* of an integer lattice basis.
Spacing == 4

MaxPixel == 3

MaxEntry == 2

\* disk_list and pos_list of strain_in_ROI (positions and diff_spots of
\* fit_nbed_disks): seed positions (x, y) in pixels and their Miller
\* indices.  Image rows run downwards, so the (0, 1) disk lies above the
\* centre disk.
Seeds4 ==
    [disk_list |-> <<<<1, 1 + Spacing>>, <<1 + Spacing, 1 + Spacing>>,
                     <<1, 1>>, <<1 + Spacing, 1>>>>,
     pos_list |-> <<<<0, 0>>, <<1, 0>>, <<0, 1>>, <<1, 1>>>>]

\* The same seeds with the centre disk listed last.
Seeds4Rev ==
    [disk_list |-> <<<<1 + Spacing, 1>>, <<1, 1>>,
                     <<1 + Spacing, 1 + Spacing>>, <<1, 1 + Spacing>>>>,
     pos_list |-> <<<<1, 1>>, <<0, 1>>, <<1, 0>>, <<0, 0>>>>]

Seeds3 ==
    [disk_list |-> <<<<1, 1 + Spacing>>, <<1 + Spacing, 1 + Spacing>>, <<1, 1>>>>,
     pos_list |-> <<<<0, 0>>, <<1, 0>>, <<0, 1>>>>]

ImgSize == Spacing + 3

\* A correlation image is described by its background level bg, the value
\* peaks[ii] of the one pixel displaced by off = (ox, oy) from seed ii, and
\* the seeds.  CorrImage is the image itself, as rows of pixels.
PixelAt(lsc, positions, y, x) ==
    IF \E k \in 1 .. Len(positions) :
           positions[k][1] + lsc.off[1] = x /\ positions[k][2] + lsc.off[2] = y
    THEN lsc.peaks[CHOOSE k \in 1 .. Len(positions) :
                       positions[k][1] + lsc.off[1] = x /\ positions[k][2] + lsc.off[2] = y]
    ELSE lsc.bg

CorrImage(lsc, positions) ==
    Array([r \in 1 .. ImgSize |->
        [c \in 1 .. ImgSize |-> PixelAt(lsc, positions, r - 1, c - 1)]])

\* The disk centres fit_gaussian2D_mask reports for a pattern whose disks
\* sit on the lattice with basis b (ravelled, rows a and b in (x, -y)
\* coordinates) around the centre disk at pixel (cx, cy).
LatticePar(b, cx, cy, diff_spots) ==
    Array([ii \in 1 .. Len(diff_spots) |->
        <<RAdd(cx, RAdd(RMul(Rat(diff_spots[ii][1], 1), b[1]),
                        RMul(Rat(diff_spots[ii][2], 1), b[3]))),
          RSub(cy, RAdd(RMul(Rat(diff_spots[ii][1], 1), b[2]),
                        RMul(Rat(diff_spots[ii][2], 1), b[4])))>>])

IntMat(a, b, c, d) == <<Rat(a, 1), Rat(b, 1), Rat(c, 1), Rat(d, 1)>>

\* The lattice of the seeds themselves, and a sheared and stretched one.
BasisA == IntMat(Spacing, 0, 0, Spacing)

BasisB == <<Rat(2 * Spacing + 1, 2), Rat(1, 2), Rat(-1, 4), Rat(Spacing - 1, 1)>>

SingularBasis == IntMat(1, 2, 2, 4)

CentreX == Rat(1, 1)

CentreY == Rat(1 + Spacing, 1)

Bright == <<MaxPixel, MaxPixel, MaxPixel, MaxPixel>>

\* The patterns a scan point of the main specification may hold: all disks
\* bright on lattice A or B, a featureless pattern, a dark centre disk,
\* exactly half of the disks dark, one of four disks dark.
MainPatterns ==
    { [bg |-> 1, peaks |-> Bright, off |-> <<0, 0>>,
       par |-> LatticePar(BasisA, CentreX, CentreY, Seeds4.pos_list)],
      [bg |-> 1, peaks |-> Bright, off |-> <<0, 0>>,
       par |-> LatticePar(BasisB, CentreX, CentreY, Seeds4.pos_list)],
      [bg |-> 1, peaks |-> <<1, 1, 1, 1>>, off |-> <<0, 0>>,
       par |-> LatticePar(BasisB, CentreX, CentreY, Seeds4.pos_list)],
      [bg |-> 1, peaks |-> <<1, MaxPixel, MaxPixel, MaxPixel>>, off |-> <<0, 0>>,
       par |-> LatticePar(BasisB, CentreX, CentreY, Seeds4.pos_list)],
      [bg |-> 1, peaks |-> <<MaxPixel, MaxPixel, 1, 1>>, off |-> <<0, 0>>,
       par |-> LatticePar(BasisB, CentreX, CentreY, Seeds4.pos_list)],
      [bg |-> 1, peaks |-> <<MaxPixel, MaxPixel, MaxPixel, 1>>, off |-> <<0, 0>>,
       par |-> LatticePar(BasisB, CentreX, CentreY, Seeds4.pos_list)] }

NoPattern == [bg |-> 0, peaks |-> <<>>, off |-> <<0, 0>>, par |-> <<>>]

\* ROI masks over the scan grid with at most MaxROI points.
Masks == {m \in [1 .. NPix -> BOOLEAN] : NoOfDisks(m) <= MaxROI}

\* nan_cutoff = 0.5, the default of strain_in_ROI (line 528).
DefaultNanCutoff == Rat(1, 2)

Comps == <<"xx", "xy", "th", "yy">>

NanArray(len) == Array([k \in 1 .. len |-> NaN])

(***************************************************************************)
(* State                                                                   *)
(***************************************************************************)
VARIABLES
    pc,              \* position in strain_in_ROI / fit_nbed_disks
    ROI,             \* the ROI mask
    reference_axes,  \* <<Zero>> for the default 0, else a ravelled 2 x 2 matrix
    data4D,          \* the patterns the scan points may hold
    seeds,           \* disk_list and pos_list
    nan_cutoff,
    disk_size,
    ref_axes,        \* mean_axes or reference_axes, the matrix that is inverted
    inverse_axes,
    ii,              \* number of ROI points processed
    lsc_pattern,     \* the pattern of the current point (or of the call)
    pattern_axes,    \* lcbed of the current point
    std,             \* fit_deviation of the current point
    e_ROI,           \* e_xx_ROI, e_xy_ROI, e_th_ROI, e_yy_ROI
    fit_std,
    e_map,           \* e_xx_map, e_xy_map, e_th_map, e_yy_map
    stage,           \* per map: "nan", "scattered", "zeroed", "smoothed"
    fitted_disk_list,\* fit_nbed_disks: the per-seed list of lines 457-466
    nancount,        \* fit_nbed_disks: the number of unfit seeds (line 467)
    fit,             \* fit_nbed_disks: the returned tuple
    data4D_ROI,      \* the patterns of the ROI points, in ROI order (line 599)
    processed,       \* the ROI points whose iteration has run
    proc,            \* preconditioning: the procedure that filters the pattern
    sec_med,         \* cbed_filter: clamp the Sobel-filtered image too
    med_factor,      \* med_factor (med_val in cbed_filter)
    pattern,         \* the image being filtered, as the array of its pixels
    steps,           \* the operations applied to the pattern so far, in order
    sobel_out,       \* the image as the last Sobel filter returned it
    medians,         \* the medians the clamps after that filter computed
    valid_input,     \* the pattern passed in was not empty and all finite
    image1,          \* dftregistration: the reference image
    image2,          \* the image to register
    displacement,    \* the circular displacement that made image2 of image1
    reg_usfac,       \* usfac, the upsampling factor
    reg,             \* what dftregistration returned or raised
    image_stack,     \* get_shift_stack: the stack of images
    sampling,        \* sampling, the usfac of every registration
    row_stack,       \* the matrix of row shifts
    col_stack,       \* the matrix of column shifts
    jj,              \* for each ii of the prange loop, the jj it is at
    written,         \* how often each entry of the matrices was assigned
    returned,        \* get_shift_stack has returned the matrices
    ls_shape,        \* log_sobel4D: the shape of data4D as passed in
    scan_dims,       \* scan_dims as passed in
    data_lsb,        \* per scan position, how often its slice was assigned
    ls_ii,           \* for each jj of the prange loop, the ii it is at
    ls_result,       \* what log_sobel4D raised or the shape it returned
    arg_buf1ft,      \* buf1ft of dftregistration called on transforms
    arg_buf2ft,      \* buf2ft, the transform to register
    pad_imFT,        \* fourier_pad: imFT as passed in
    pad_outsize,     \* outsize
    pad_imout,       \* what fourier_pad returned
    peaks_mean,      \* strain4D_general: the peaks of the mean pattern
    peaks_scan,      \* the peaks of the pattern of scan point kk
    rotangle,        \* rotangle, in quarter turns
    strain_kk,       \* scan_strain and the four values stored at kk
    old_entry,       \* strain_log or strain_oldstyle, whichever was called
    edge_map,        \* sort_edges: edge_map as passed in
    edge_distance,   \* edge_distance
    truth_list,      \* per edge pixel, whether it is in the chain
    edge_list_1,     \* the chain, as indices into point_list
    se_pc,           \* position in sort_edges
    se_ii,           \* the iterations of the loop that have run
    outer_inner      \* outer_edge and inner_edge as returned

vars == <<pc, ROI, reference_axes, data4D, seeds, nan_cutoff, disk_size, ref_axes,
          inverse_axes, ii, lsc_pattern, pattern_axes, std, e_ROI, fit_std, e_map,
          stage, fitted_disk_list, nancount, fit, data4D_ROI, processed,
          proc, sec_med, med_factor, pattern, steps, sobel_out, medians, valid_input,
          image1, image2, displacement, reg_usfac, reg,
          image_stack, sampling, row_stack, col_stack, jj, written, returned,
          ls_shape, scan_dims, data_lsb, ls_ii, ls_result,
          arg_buf1ft, arg_buf2ft, pad_imFT, pad_outsize, pad_imout,
          peaks_mean, peaks_scan, rotangle, strain_kk, old_entry,
          edge_map, edge_distance, truth_list, edge_list_1, se_pc, se_ii, outer_inner>>

\* The state of the iterations taken in any order.
orderVars == <<data4D_ROI, processed>>

\* The state of the preconditioning of one pattern.
preVars == <<proc, sec_med, med_factor, pattern, steps, sobel_out, medians, valid_input>>

\* The state of one call of dftregistration.
regVars == <<image1, image2, displacement, reg_usfac, reg>>

\* The state of one call of get_shift_stack.
stackVars == <<image_stack, sampling, row_stack, col_stack, jj, written, returned>>

fourierVars == <<regVars, stackVars>>

\* The state of one call of log_sobel4D.
logSobelVars == <<ls_shape, scan_dims, data_lsb, ls_ii, ls_result>>

\* The transforms passed to dftregistration as they are.
spectraVars == <<arg_buf1ft, arg_buf2ft>>

\* The state of the procedures that stand alone.
\* The state of one call of fourier_pad.
padVars == <<pad_imFT, pad_outsize, pad_imout>>

\* The state of one iteration of the last loop of strain4D_general.
generalVars == <<peaks_mean, peaks_scan, rotangle, strain_kk>>

\* The entry point of a call of strain_log or strain_oldstyle.
oldVars == <<old_entry>>

\* The state of one call of sort_edges.
edgeVars == <<edge_map, edge_distance, truth_list, edge_list_1, se_pc, se_ii, outer_inner>>

aloneVars == <<spectraVars, padVars, generalVars, oldVars, edgeVars>>

moreVars == <<logSobelVars, aloneVars>>

\* What no statement of strain_in_ROI and fit_nbed_disks assigns: their
\* arguments and the state of the other procedures.
otherVars == <<orderVars, preVars, fourierVars, moreVars>>

inputVars == <<ROI, reference_axes, data4D, seeds, nan_cutoff, disk_size, otherVars>>

OrderIdle == data4D_ROI = <<>> /\ processed = {}

PreIdle ==
    /\ proc = "none"
    /\ sec_med = FALSE
    /\ med_factor = One
    /\ pattern = <<>>
    /\ steps = <<>>
    /\ sobel_out = <<>>
    /\ medians = <<>>
    /\ valid_input = TRUE

RegIdle ==
    /\ image1 = <<>>
    /\ image2 = <<>>
    /\ displacement = <<>>
    /\ reg_usfac = 0
    /\ reg = <<>>

LogSobelIdle ==
    /\ ls_shape = <<>>
    /\ scan_dims = <<>>
    /\ data_lsb = <<>>
    /\ ls_ii = <<>>
    /\ ls_result = <<>>

SpectraIdle == arg_buf1ft = <<>> /\ arg_buf2ft = <<>>

PadIdle == pad_imFT = <<>> /\ pad_outsize = <<>> /\ pad_imout = <<>>

GeneralIdle ==
    peaks_mean = <<>> /\ peaks_scan = <<>> /\ rotangle = 0 /\ strain_kk = <<>>

OldIdle == old_entry = "none"

EdgeIdle ==
    /\ edge_map = <<>>
    /\ edge_distance = 0
    /\ truth_list = <<>>
    /\ edge_list_1 = <<>>
    /\ se_pc = "idle"
    /\ se_ii = 0
    /\ outer_inner = <<>>

AloneIdle == SpectraIdle /\ PadIdle /\ GeneralIdle /\ OldIdle /\ EdgeIdle

MoreIdle == LogSobelIdle /\ AloneIdle

StackIdle ==
    /\ image_stack = <<>>
    /\ sampling = 0
    /\ row_stack = <<>>
    /\ col_stack = <<>>
    /\ jj = <<>>
    /\ written = <<>>
    /\ returned = FALSE

fitVars == <<fitted_disk_list, nancount, fit>>

NoFit == [fitted_disk_list |-> <<>>, center_position |-> <<>>,
          fit_deviation |-> <<>>, lcbed |-> <<>>]

\* Lines 598-613: the arrays strain_in_ROI allocates, all NaN.
InitArrays ==
    /\ pc = "reference"
    /\ ii = 0
    /\ ref_axes = <<>>
    /\ inverse_axes = <<>>
    /\ lsc_pattern = NoPattern
    /\ pattern_axes = <<>>
    /\ std = <<>>
    /\ e_ROI = [xx |-> NanArray(NoOfDisks(ROI)), xy |-> NanArray(NoOfDisks(ROI)),
                th |-> NanArray(NoOfDisks(ROI)), yy |-> NanArray(NoOfDisks(ROI))]
    /\ fit_std = Array([k \in 1 .. NoOfDisks(ROI) |-> <<NaN, NaN>>])
    /\ e_map = [xx |-> NanArray(NPix), xy |-> NanArray(NPix),
                th |-> NanArray(NPix), yy |-> NanArray(NPix)]
    /\ stage = [xx |-> "nan", xy |-> "nan", th |-> "nan", yy |-> "nan"]
    /\ fitted_disk_list = <<>>
    /\ nancount = 0
    /\ fit = NoFit

Init ==
    /\ ROI \in Masks
    /\ reference_axes \in {<<Zero>>, BasisA, SingularBasis}
    /\ data4D = MainPatterns
    /\ seeds = Seeds4
    /\ nan_cutoff = DefaultNanCutoff
    /\ disk_size = 1
    /\ InitArrays
    /\ OrderIdle
    /\ PreIdle
    /\ RegIdle
    /\ StackIdle
    /\ MoreIdle

(***************************************************************************)
(* strain_in_ROI                                                           *)
(***************************************************************************)
\* fit_nbed_disks on the correlation image of pattern pat.
FitPattern(pat, cutoff) ==
    FitNbedDisks(CorrImage(pat, seeds.disk_list), disk_size, seeds.disk_list,
                 seeds.pos_list, cutoff, pat.par)

\* Lines 616-628.  Without reference axes the ROI-mean pattern is fitted
\* with the default nan_cutoff = 0 of fit_nbed_disks; the mean pattern is
\* one of the patterns of the data set, or has no disks at all when the
\* ROI is empty.  np.linalg.inv raises for np.nan and for a singular matrix.
ComputeReference(mean) ==
    /\ pc = "reference"
    /\ \E axes \in {IF Len(reference_axes) < 2
                    THEN IF NoOfDisks(ROI) = 0 THEN <<NaN>>
                         ELSE FitPattern(mean, Zero).lcbed
                    ELSE reference_axes} :
           /\ ref_axes' = axes
           /\ IF InvRaises(axes)
              THEN pc' = "raised" /\ inverse_axes' = inverse_axes
              ELSE /\ inverse_axes' = MatInv(axes)
                   /\ pc' = IF NoOfDisks(ROI) = 0 THEN "assemble" ELSE "loop"
    /\ UNCHANGED <<inputVars, fitVars, ii, lsc_pattern, pattern_axes, std, e_ROI,
                   fit_std, e_map, stage>>

\* Lines 648-653 for a fitted point: the four strain values.
PointStrain(lcbed, inv) ==
    IF AxesFitted(lcbed)
    THEN [xx |-> StrainXX(SPattern(TPattern(lcbed, inv))),
          xy |-> StrainXY(SPattern(TPattern(lcbed, inv))),
          th |-> StrainTh(SPattern(TPattern(lcbed, inv))),
          yy |-> StrainYY(SPattern(TPattern(lcbed, inv)))]
    ELSE [xx |-> NaN, xy |-> NaN, th |-> NaN, yy |-> NaN]

\* An assignment that overwrites the whole array.
StoreAll(arr, k, v) == Array([j \in 1 .. Len(arr) |-> v])

\* An assignment to the entry before: index ii - 1, which for the first
\* entry is the last one.
StoreBelow(arr, k, v) == [arr EXCEPT ![IF k = 1 THEN Len(arr) ELSE k - 1] = v]

\* e_xx_ROI[ii] = v: the assignment to one entry of an array.
StoreAt(arr, k, v) == [arr EXCEPT ![k] = v]

\* Lines 629-653: one iteration of the loop over the ROI points.
LoopStep(pat) ==
    /\ pc = "loop"
    /\ \E f \in {FitPattern(pat, nan_cutoff)} :
       \E e \in {PointStrain(f.lcbed, inverse_axes)} :
           /\ lsc_pattern' = pat
           /\ std' = f.fit_deviation
           /\ pattern_axes' = f.lcbed
           /\ IF AxesFitted(f.lcbed)
              THEN /\ fit_std' = StoreAt(fit_std, ii + 1, f.fit_deviation)
                   /\ e_ROI' = [xx |-> StoreAt(e_ROI.xx, ii + 1, e.xx),
                                xy |-> StoreAt(e_ROI.xy, ii + 1, e.xy),
                                th |-> StoreAt(e_ROI.th, ii + 1, e.th),
                                yy |-> StoreAt(e_ROI.yy, ii + 1, e.yy)]
              ELSE UNCHANGED <<fit_std, e_ROI>>
    /\ ii' = ii + 1
    /\ pc' = IF ii + 1 = NoOfDisks(ROI) THEN "assemble" ELSE "loop"
    /\ UNCHANGED <<inputVars, fitVars, ref_axes, inverse_axes, e_map, stage>>

\* The maps are assembled in the order xx, xy, th, yy (lines 654-665).
Turn(k) ==
    /\ pc = "assemble"
    /\ IF k = 1 THEN TRUE ELSE stage[Comps[k - 1]] = "smoothed"

\* Lines 654, 657, 660, 663.
Scatter(k) ==
    /\ Turn(k)
    /\ stage[Comps[k]] = "nan"
    /\ e_map' = [e_map EXCEPT ![Comps[k]] = ScatterROI(@, ROI, e_ROI[Comps[k]])]
    /\ stage' = [stage EXCEPT ![Comps[k]] = "scattered"]
    /\ UNCHANGED <<inputVars, fitVars, pc, ref_axes, inverse_axes, ii, lsc_pattern,
                   pattern_axes, std, e_ROI, fit_std>>

\* Lines 655, 658, 661, 664.
FillNaN(k) ==
    /\ Turn(k)
    /\ stage[Comps[k]] = "scattered"
    /\ e_map' = [e_map EXCEPT ![Comps[k]] = NanToZero(@)]
    /\ stage' = [stage EXCEPT ![Comps[k]] = "zeroed"]
    /\ UNCHANGED <<inputVars, fitVars, pc, ref_axes, inverse_axes, ii, lsc_pattern,
                   pattern_axes, std, e_ROI, fit_std>>

\* Lines 656, 659, 662, 665, and the return of line 666 after the last map.
Smooth(k) ==
    /\ Turn(k)
    /\ stage[Comps[k]] = "zeroed"
    /\ e_map' = [e_map EXCEPT ![Comps[k]] = GaussianFilter(@)]
    /\ stage' = [stage EXCEPT ![Comps[k]] = "smoothed"]
    /\ pc' = IF k = Len(Comps) THEN "done" ELSE pc
    /\ UNCHANGED <<inputVars, fitVars, ref_axes, inverse_axes, ii, lsc_pattern,
                   pattern_axes, std, e_ROI, fit_std>>

Next ==
    \/ \E mean \in data4D : ComputeReference(mean)
    \/ \E pat \in data4D : LoopStep(pat)
    \/ \E k \in 1 .. Len(Comps) : Scatter(k)
    \/ \E k \in 1 .. Len(Comps) : FillNaN(k)
    \/ \E k \in 1 .. Len(Comps) : Smooth(k)

Spec == Init /\ [][Next]_vars

(***************************************************************************)
(* strain_in_ROI at one scan point, over a range of lattice bases          *)
(***************************************************************************)
\* The lattice bases with integer entries of size at most MaxEntry.
IntBases ==
    {IntMat(a, b, c, d) : a \in -MaxEntry .. MaxEntry, b \in -MaxEntry .. MaxEntry,
                          c \in -MaxEntry .. MaxEntry, d \in -MaxEntry .. MaxEntry}

\* A hexagonal lattice with a along x (sqrt(3)/2 is taken as 7/8), the same
\* lattice turned by a quarter turn, and the list of its orientations:
\* the quarter turns of the lattice and of its sixth turn (a' = b, b' = b - a).
HexBasis == <<Rat(Spacing, 1), Zero, Rat(Spacing, 2), Rat(7 * Spacing, 8)>>

Rot90(m) == <<RNeg(m[2]), m[1], RNeg(m[4]), m[3]>>

Hex60 == <<HexBasis[3], HexBasis[4], RSub(HexBasis[3], HexBasis[1]),
           RSub(HexBasis[4], HexBasis[2])>>

HexBases ==
    {HexBasis, Rot90(HexBasis), Rot90(Rot90(HexBasis)), Rot90(Rot90(Rot90(HexBasis))),
     Hex60, Rot90(Hex60), Rot90(Rot90(Hex60)), Rot90(Rot90(Rot90(Hex60)))}

Bases == IntBases \cup HexBases \cup {BasisB}

\* A strain of 2 % along x: every disk position (x, y) of the lattice moves
\* to ((1 - 0.02) x, y), which is what a lattice stretched by 2 % along x
\* in real space does to its diffraction pattern.
AppliedStrain == Rat(1, 50)

Strained(b) ==
    <<RMul(b[1], RSub(One, AppliedStrain)), b[2],
      RMul(b[3], RSub(One, AppliedStrain)), b[4]>>

\* The pattern whose disks are bright and sit on the lattice with basis b.
LatticePattern(b) ==
    [bg |-> 1, peaks |-> Bright, off |-> <<0, 0>>,
     par |-> LatticePar(b, CentreX, CentreY, Seeds4.pos_list)]

\* The ROI that holds the first scan point only.
OnePoint == Array([p \in 1 .. NPix |-> p = 1])

InitBasis ==
    /\ ROI = OnePoint
    /\ reference_axes \in Bases
    /\ data4D = {LatticePattern(reference_axes), LatticePattern(Strained(reference_axes))}
    /\ seeds = Seeds4
    /\ nan_cutoff = DefaultNanCutoff
    /\ disk_size = 1
    /\ InitArrays
    /\ OrderIdle
    /\ PreIdle
    /\ RegIdle
    /\ StackIdle
    /\ MoreIdle

SpecBasis == InitBasis /\ [][Next]_vars

(***************************************************************************)
(* fit_nbed_disks on its own                                               *)
(***************************************************************************)
BgLevels == -1 .. 2

Offsets == {<<0, 0>>, <<1, 0>>, <<1, 1>>, <<2, 0>>}

DiskSizes == {1, 2}

Cutoffs == {Zero, DefaultNanCutoff, One}

\* Correlation images for the seeds s: background b, and the pixel at
\* offset o from each seed of the set S at level hi; the fitted disk
\* centres lie on lattice A or B.
FitPatterns(s) ==
    {[bg |-> b,
      peaks |-> Array([k \in 1 .. Len(s.disk_list) |-> IF k \in S THEN hi ELSE b]),
      off |-> o,
      par |-> LatticePar(lat, CentreX, CentreY, s.pos_list)] :
        b \in BgLevels, hi \in 0 .. MaxPixel, S \in SUBSET (1 .. Len(s.disk_list)),
        o \in Offsets, lat \in {BasisA, BasisB}}

InitFit ==
    /\ pc = "seeds"
    /\ seeds \in {Seeds4, Seeds4Rev, Seeds3}
    /\ disk_size \in DiskSizes
    /\ nan_cutoff \in Cutoffs
    /\ lsc_pattern \in FitPatterns(seeds)
    /\ ROI = Array([p \in 1 .. NPix |-> FALSE])
    /\ reference_axes = <<Zero>>
    /\ data4D = {}
    /\ ii = 0
    /\ ref_axes = <<>>
    /\ inverse_axes = <<>>
    /\ pattern_axes = <<>>
    /\ std = <<>>
    /\ e_ROI = [xx |-> <<>>, xy |-> <<>>, th |-> <<>>, yy |-> <<>>]
    /\ fit_std = <<>>
    /\ e_map = [xx |-> <<>>, xy |-> <<>>, th |-> <<>>, yy |-> <<>>]
    /\ stage = [xx |-> "nan", xy |-> "nan", th |-> "nan", yy |-> "nan"]
    /\ fitted_disk_list = <<>>
    /\ nancount = 0
    /\ fit = NoFit
    /\ OrderIdle
    /\ PreIdle
    /\ RegIdle
    /\ StackIdle
    /\ MoreIdle

\* Lines 453-467: the loop over the seeds and the count of the unfit ones.
FitSeeds ==
    /\ pc = "seeds"
    /\ \E all \in {FittedDiskList(CorrImage(lsc_pattern, seeds.disk_list), disk_size,
                                  seeds.disk_list, nan_cutoff, lsc_pattern.par)} :
           /\ fitted_disk_list' = all
           /\ nancount' = NanCount(all)
    /\ pc' = "solve"
    /\ UNCHANGED <<inputVars, ref_axes, inverse_axes, ii, lsc_pattern, pattern_axes,
                   std, e_ROI, fit_std, e_map, stage, fit>>

\* Lines 468-514: the lattice solve and the return.
SolveStep ==
    /\ pc = "solve"
    /\ \E r \in {SolveLattice(fitted_disk_list, seeds.pos_list)} :
           /\ fit' = r
           /\ fitted_disk_list' = r.fitted_disk_list
    /\ pc' = "returned"
    /\ UNCHANGED <<inputVars, ref_axes, inverse_axes, ii, lsc_pattern, pattern_axes,
                   std, e_ROI, fit_std, e_map, stage, nancount>>

NextFit == FitSeeds \/ SolveStep

SpecFit == InitFit /\ [][NextFit]_vars

(***************************************************************************)
(* fit_nbed_disks on patterns of many lattices                             *)
(***************************************************************************)
\* Correlation images for the seeds s with at most one disk too faint to be
\* fitted; the fitted disk centres lie on a lattice of Bases, singular
\* ones included.
LatticePatterns(s) ==
    {[bg |-> 1,
      peaks |-> Array([k \in 1 .. Len(s.disk_list) |-> IF k \in S THEN 1 ELSE MaxPixel]),
      off |-> <<0, 0>>,
      par |-> LatticePar(lat, CentreX, CentreY, s.pos_list)] :
        S \in {T \in SUBSET (1 .. Len(s.disk_list)) : Cardinality(T) <= 1},
        lat \in Bases}

InitLattice ==
    /\ pc = "seeds"
    /\ seeds \in {Seeds4, Seeds4Rev, Seeds3}
    /\ disk_size = 1
    /\ nan_cutoff = DefaultNanCutoff
    /\ lsc_pattern \in LatticePatterns(seeds)
    /\ ROI = Array([p \in 1 .. NPix |-> FALSE])
    /\ reference_axes = <<Zero>>
    /\ data4D = {}
    /\ ii = 0
    /\ ref_axes = <<>>
    /\ inverse_axes = <<>>
    /\ pattern_axes = <<>>
    /\ std = <<>>
    /\ e_ROI = [xx |-> <<>>, xy |-> <<>>, th |-> <<>>, yy |-> <<>>]
    /\ fit_std = <<>>
    /\ e_map = [xx |-> <<>>, xy |-> <<>>, th |-> <<>>, yy |-> <<>>]
    /\ stage = [xx |-> "nan", xy |-> "nan", th |-> "nan", yy |-> "nan"]
    /\ fitted_disk_list = <<>>
    /\ nancount = 0
    /\ fit = NoFit
    /\ OrderIdle
    /\ PreIdle
    /\ RegIdle
    /\ StackIdle
    /\ MoreIdle

SpecLattice == InitLattice /\ [][NextFit]_vars

(***************************************************************************)
(* strain_in_ROI with the iterations of its loop taken in any order        *)
(***************************************************************************)
\* The patterns a ROI point holds here: all disks bright on lattice A or
\* B, or the centre disk dark.
OrderPatterns ==
    {p \in MainPatterns : p.peaks = Bright \/ (p.peaks[1] = 1 /\ p.peaks[2] = MaxPixel)}

InitOrder ==
    /\ ROI \in Masks
    /\ reference_axes \in {<<Zero>>, BasisA}
    /\ data4D = OrderPatterns
    /\ data4D_ROI \in [1 .. NoOfDisks(ROI) -> OrderPatterns]
    /\ processed = {}
    /\ seeds = Seeds4
    /\ nan_cutoff = DefaultNanCutoff
    /\ disk_size = 1
    /\ InitArrays
    /\ PreIdle
    /\ RegIdle
    /\ StackIdle
    /\ MoreIdle

\* Line 630: pattern = data4D_ROI[:, :, ii].
PointPattern(k) == data4D_ROI[k]

\* Lines 630-653 for the ROI point k, whichever points ran before it.
PointStep(k) ==
    /\ pc = "loop"
    /\ k \in (1 .. NoOfDisks(ROI)) \ processed
    /\ \E f \in {FitPattern(PointPattern(k), nan_cutoff)} :
       \E e \in {PointStrain(f.lcbed, inverse_axes)} :
           /\ lsc_pattern' = PointPattern(k)
           /\ std' = f.fit_deviation
           /\ pattern_axes' = f.lcbed
           /\ IF AxesFitted(f.lcbed)
              THEN /\ fit_std' = StoreAt(fit_std, k, f.fit_deviation)
                   /\ e_ROI' = [xx |-> StoreAt(e_ROI.xx, k, e.xx),
                                xy |-> StoreAt(e_ROI.xy, k, e.xy),
                                th |-> StoreAt(e_ROI.th, k, e.th),
                                yy |-> StoreAt(e_ROI.yy, k, e.yy)]
              ELSE UNCHANGED <<fit_std, e_ROI>>
    /\ processed' = processed \cup {k}
    /\ ii' = ii + 1
    /\ pc' = IF ii + 1 = NoOfDisks(ROI) THEN "assemble" ELSE "loop"
    /\ UNCHANGED <<ROI, reference_axes, data4D, seeds, nan_cutoff, disk_size,
                   data4D_ROI, preVars, fourierVars, moreVars,
                   fitVars, ref_axes, inverse_axes, e_map, stage>>

NextOrder ==
    \/ \E mean \in data4D : ComputeReference(mean)
    \/ \E k \in 1 .. MaxROI : PointStep(k)
    \/ \E k \in 1 .. Len(Comps) : Scatter(k)
    \/ \E k \in 1 .. Len(Comps) : FillNaN(k)
    \/ \E k \in 1 .. Len(Comps) : Smooth(k)

SpecOrder == InitOrder /\ [][NextOrder]_vars

(***************************************************************************)
(* Preconditioning of one pattern                                          *)
(***************************************************************************)
\* Bound: the largest pixel value of a pattern that is preconditioned.
MaxGrey == 2

\* The numbers of pixels of such a pattern, an even and an odd one.
PixelCounts == {2, 3}

ImagesOf(n) == {Array([i \in 1 .. n |-> Rat(img[i], 1)]) : img \in [1 .. n -> 0 .. MaxGrey]}

Factors == {One, Rat(3, 2), Rat(2, 1)}

RECURSIVE RInsert(_, _)
RInsert(v, sorted) ==
    IF sorted = <<>> THEN <<v>>
    ELSE IF ~RLess(Head(sorted), v) THEN <<v>> \o sorted
    ELSE <<Head(sorted)>> \o RInsert(v, Tail(sorted))

RECURSIVE RSorted(_)
RSorted(values) ==
    IF values = <<>> THEN <<>> ELSE RInsert(Head(values), RSorted(Tail(values)))

\* np.median of an image: NaN if a pixel is NaN or the image is empty.
RMedian(image) ==
    IF image = <<>> \/ \E i \in 1 .. Len(image) : IsNaN(image[i]) THEN NaN
    ELSE \* the sorted array, evaluated once
         LET sorted == RSorted(image)
             k == Len(image)
         IN  IF k % 2 = 1 THEN sorted[(k + 1) \div 2]
             ELSE RDiv(RAdd(sorted[k \div 2], sorted[(k \div 2) + 1]), Rat(2, 1))

\* image[image > f * np.median(image)] = f * np.median(image)
\* (lines 634-636, 811-813, 1047-1049, 1262-1264, 1274-1276).
ClampedAbove(image, f, m) ==
    Array([i \in 1 .. Len(image) |->
             IF RLess(RMul(f, m), image[i]) THEN RMul(m, f) ELSE image[i]])

\* image[image < np.median(image) / f] = np.median(image) / f
\* (lines 637-639, 814-816, 1050-1052, 1265-1267, 1277-1279).
ClampedBelow(image, f, m) ==
    Array([i \in 1 .. Len(image) |->
             IF RLess(image[i], RDiv(m, f)) THEN RDiv(m, f) ELSE image[i]])

\* Lines 619-621: image[image > f * np.median(image)] = np.median(image).
AboveSetToMedian(image, f, m) ==
    Array([i \in 1 .. Len(image) |->
             IF RLess(RMul(f, m), image[i]) THEN m ELSE image[i]])

\* The functions of st.util and scipy.ndimage a pattern passes through.
Collaborators ==
    {"image_normalizer", "image_logarizer", "gaussian_filter", "sobel", "cross_corr"}

Procs == {"strain_in_ROI", "mean_cbed", "log_sobel4D", "strain4D_general", "cbed_filter"}

\* The operations each procedure applies to a pattern, in source order:
\* strain_in_ROI in its loop (lines 631-642) and on the ROI mean (lines
\* 617-624), log_sobel4D (lines 807-816), strain4D_general (lines 1043-1052
\* and 1086), cbed_filter (lines 1261-1282).
Program(p, sm) ==
    CASE p = "strain_in_ROI" ->
           <<"image_logarizer", "gaussian_filter", "sobel", "clamp_above",
             "clamp_below", "cross_corr">>
      [] p = "mean_cbed" ->
           <<"image_logarizer", "sobel", "above_to_median", "cross_corr">>
      [] p = "log_sobel4D" ->
           <<"image_normalizer", "image_logarizer", "gaussian_filter", "sobel",
             "clamp_above", "clamp_below">>
      [] p = "strain4D_general" ->
           <<"image_normalizer", "image_logarizer", "gaussian_filter", "sobel",
             "clamp_above", "clamp_below", "cross_corr">>
      [] p = "cbed_filter" ->
           <<"clamp_above", "clamp_below", "image_logarizer", "gaussian_filter",
             "sobel">>
           \o (IF sm THEN <<"clamp_above", "clamp_below">> ELSE <<>>)
           \o <<"cross_corr">>
      [] OTHER -> <<>>

\* The operation the procedure applies next; an error raised by a call
\* ends it.
NextOp ==
    IF steps # <<>> /\ steps[Len(steps)] = "raised" THEN "raised"
    ELSE IF Len(steps) < Len(Program(proc, sec_med))
    THEN Program(proc, sec_med)[Len(steps) + 1] ELSE "return"

\* The scan loops and solvers at rest.
StrainIdle ==
    /\ ROI = Array([p \in 1 .. NPix |-> FALSE])
    /\ reference_axes = <<Zero>>
    /\ data4D = {}
    /\ seeds = Seeds4
    /\ nan_cutoff = DefaultNanCutoff
    /\ disk_size = 1
    /\ InitArrays
    /\ OrderIdle

InitPre ==
    /\ proc \in Procs
    /\ sec_med \in IF proc = "cbed_filter" THEN BOOLEAN ELSE {FALSE}
    /\ med_factor \in Factors
    /\ \E n \in PixelCounts : pattern \in ImagesOf(n)
    /\ steps = <<>>
    /\ sobel_out = <<>>
    /\ medians = <<>>
    /\ valid_input = TRUE
    /\ StrainIdle
    /\ RegIdle
    /\ StackIdle
    /\ MoreIdle

strainVars == <<pc, ROI, reference_axes, data4D, seeds, nan_cutoff, disk_size, ref_axes,
                inverse_axes, ii, lsc_pattern, pattern_axes, std, e_ROI, fit_std, e_map,
                stage, fitted_disk_list, nancount, fit, orderVars>>

\* A call of a function outside this file: the image it returns is not
\* determined here, any image of the same shape may come back.
Collaborator(op, out) ==
    /\ NextOp = op
    /\ pattern' = out
    /\ steps' = Append(steps, op)
    /\ sobel_out' = IF op = "sobel" THEN out ELSE sobel_out
    /\ medians' = IF op = "sobel" THEN <<>> ELSE medians
    /\ UNCHANGED <<strainVars, fourierVars, moreVars, proc, sec_med, med_factor, valid_input>>

ClampAbove ==
    /\ NextOp = "clamp_above"
    /\ \E m \in {RMedian(pattern)} :
           /\ pattern' = ClampedAbove(pattern, med_factor, m)
           /\ medians' = Append(medians, m)
    /\ steps' = Append(steps, "clamp_above")
    /\ UNCHANGED <<strainVars, fourierVars, moreVars, proc, sec_med, med_factor, valid_input, sobel_out>>

ClampBelow ==
    /\ NextOp = "clamp_below"
    /\ \E m \in {RMedian(pattern)} :
           /\ pattern' = ClampedBelow(pattern, med_factor, m)
           /\ medians' = Append(medians, m)
    /\ steps' = Append(steps, "clamp_below")
    /\ UNCHANGED <<strainVars, fourierVars, moreVars, proc, sec_med, med_factor, valid_input, sobel_out>>

AboveToMedian ==
    /\ NextOp = "above_to_median"
    /\ \E m \in {RMedian(pattern)} :
           /\ pattern' = AboveSetToMedian(pattern, med_factor, m)
           /\ medians' = Append(medians, m)
    /\ steps' = Append(steps, "above_to_median")
    /\ UNCHANGED <<strainVars, fourierVars, moreVars, proc, sec_med, med_factor, valid_input, sobel_out>>

NextPre ==
    \/ \E op \in Collaborators : \E out \in ImagesOf(Len(pattern)) : Collaborator(op, out)
    \/ ClampAbove
    \/ ClampBelow
    \/ AboveToMedian

SpecPre == InitPre /\ [][NextPre]_vars

(***************************************************************************)
(* Preconditioning of a pattern that is empty or not finite                *)
(***************************************************************************)
\* The numbers of pixels of such a pattern.
InvalidCounts == {0, 2}

Infinity == Rat(1, 0)

\* The images with pixels that may be NaN or infinite.
AnyImagesOf(n) ==
    {Array(img) : img \in [1 .. n -> {Rat(g, 1) : g \in 0 .. MaxGrey} \cup {NaN, Infinity}]}

AllFinite(image) == \A i \in 1 .. Len(image) : IsFinite(image[i])

InitInvalid ==
    /\ proc \in Procs
    /\ sec_med \in IF proc = "cbed_filter" THEN BOOLEAN ELSE {FALSE}
    /\ med_factor \in Factors
    /\ \E n \in InvalidCounts :
          pattern \in {image \in AnyImagesOf(n) : image = <<>> \/ ~AllFinite(image)}
    /\ steps = <<>>
    /\ sobel_out = <<>>
    /\ medians = <<>>
    /\ valid_input = FALSE
    /\ StrainIdle
    /\ RegIdle
    /\ StackIdle
    /\ MoreIdle

\* A call of a function outside this file raises: nothing in this file
\* catches the error, the procedure ends.
CollaboratorRaises(op) ==
    /\ NextOp = op
    /\ steps' = Append(steps, "raised")
    /\ UNCHANGED <<strainVars, fourierVars, moreVars, proc, sec_med, med_factor, valid_input,
                   pattern, sobel_out, medians>>

NextInvalid ==
    \/ \E op \in Collaborators : \E out \in AnyImagesOf(Len(pattern)) : Collaborator(op, out)
    \/ \E op \in Collaborators : CollaboratorRaises(op)
    \/ ClampAbove
    \/ ClampBelow
    \/ AboveToMedian

SpecInvalid == InitInvalid /\ [][NextInvalid]_vars

(***************************************************************************)
(* Complex numbers for the discrete Fourier transforms                     *)
(***************************************************************************)
\* The transforms of images with 1, 2 or 4 rows and columns, upsampled so
\* that rows times factor is at most RootOrder, need the 8th roots of unity
\* only.  A complex number is a[1] + a[2] w + a[3] w^2 + a[4] w^3 with
\* integer a[j] and w = exp(2 pi i / 8), so w^4 = -1.
RootOrder == 8

CZero == <<0, 0, 0, 0>>

CInt(k) == <<k, 0, 0, 0>>

CAdd(x, y) == <<x[1] + y[1], x[2] + y[2], x[3] + y[3], x[4] + y[4]>>

CNeg(x) == <<-x[1], -x[2], -x[3], -x[4]>>

CMul(x, y) ==
    <<x[1] * y[1] - x[2] * y[4] - x[3] * y[3] - x[4] * y[2],
      x[1] * y[2] + x[2] * y[1] - x[3] * y[4] - x[4] * y[3],
      x[1] * y[3] + x[2] * y[2] + x[3] * y[1] - x[4] * y[4],
      x[1] * y[4] + x[2] * y[3] + x[3] * y[2] + x[4] * y[1]>>

\* np.conj: the conjugate of w^k is w^(-k) = -w^(4 - k).
CConj(x) == <<x[1], -x[4], -x[3], -x[2]>>

\* w^k.
W(k) ==
    LET m == k % RootOrder
    IN  IF m < 4 THEN [j \in 1 .. 4 |-> IF j = m + 1 THEN 1 ELSE 0]
        ELSE [j \in 1 .. 4 |-> IF j = m - 3 THEN -1 ELSE 0]

\* exp(2 pi i t) for the rational t, a multiple of 1 / RootOrder.
Exp2Pi(t) == W((RootOrder * t.n) \div t.d)

\* The phase can be represented.
OnGrid(t) == IsFinite(t) /\ (RootOrder * t.n) % t.d = 0

\* |x|^2 = p + q sqrt(2), as the pair <<p, q>>.
Abs2(x) ==
    <<x[1] * x[1] + x[2] * x[2] + x[3] * x[3] + x[4] * x[4],
      x[1] * x[2] + x[2] * x[3] + x[3] * x[4] - x[4] * x[1]>>

\* p / q > sqrt(2) for positive integers p and q, by the continued
\* fraction of sqrt(2) (no squares, which would overflow).
RECURSIVE GtSqrt2(_, _)
GtSqrt2(p, q) ==
    IF p <= q THEN FALSE
    ELSE IF p >= 2 * q THEN TRUE
    ELSE ~GtSqrt2(2 * q - p, p - q)

\* p + q sqrt(2) > 0.
Positive(p, q) ==
    IF p >= 0 /\ q >= 0 THEN p + q > 0
    ELSE IF p <= 0 /\ q <= 0 THEN FALSE
    ELSE IF p > 0 THEN GtSqrt2(p, -q)
    ELSE ~GtSqrt2(-p, q)

\* a < b for a = <<p, q>> and b = <<r, s>> standing for p + q sqrt(2) and
\* r + s sqrt(2): the order of np.abs values.
AbsLess(a, b) == Positive(b[1] - a[1], b[2] - a[2])

\* The one element of a set with one element (binds a value for reuse).
The(S) == CHOOSE r \in S : TRUE

RECURSIVE CSum(_, _)
CSum(f, n) == IF n = 0 THEN CZero ELSE CAdd(CSum(f, n - 1), f[n])

(***************************************************************************)
(* Arrays and the transforms of numpy.fft                                  *)
(***************************************************************************)
\* A 2D array is the sequence of its rows; At reads it with indices from 0.
Shape(a) == <<Len(a), Len(a[1])>>

At(a, r, c) == a[r + 1][c + 1]

\* The array with rows 0 .. nr - 1 and columns 0 .. nc - 1 and entries f.
Table(nr, nc, f(_, _)) ==
    Array([r \in 1 .. nr |-> Array([c \in 1 .. nc |-> f(r - 1, c - 1)])])

\* sum over y, x of f(y, x).
Sum2(nr, nc, f(_, _)) ==
    CSum([k \in 1 .. nr * nc |-> f((k - 1) \div nc, (k - 1) % nc)], nr * nc)

\* numpy.fft.fft2 of an integer image.
FFT2(image) ==
    LET nr == Len(image)
        nc == Len(image[1])
        Term(u, v, y, x) ==
            CMul(CInt(At(image, y, x)), Exp2Pi(RNeg(RAdd(Rat(u * y, nr), Rat(v * x, nc)))))
        Bin(u, v) == LET T(y, x) == Term(u, v, y, x) IN Sum2(nr, nc, T)
    IN  Table(nr, nc, Bin)

\* numpy.fft.ifft2(ft) * ft.size: the inverse transform without its
\* division by the number of entries.
IFFT2Sum(ft) ==
    LET nr == Len(ft)
        nc == Len(ft[1])
        Term(y, x, u, v) == CMul(At(ft, u, v), Exp2Pi(RAdd(Rat(u * y, nr), Rat(v * x, nc))))
        Pixel(y, x) == LET T(u, v) == Term(y, x, u, v) IN Sum2(nr, nc, T)
    IN  Table(nr, nc, Pixel)

\* numpy.fft.fftshift and ifftshift.
FftShift(a) ==
    LET nr == Len(a)
        nc == Len(a[1])
        E(r, c) == At(a, (r - (nr \div 2)) % nr, (c - (nc \div 2)) % nc)
    IN  Table(nr, nc, E)

IfftShift(a) ==
    LET nr == Len(a)
        nc == Len(a[1])
        E(r, c) == At(a, (r + (nr \div 2)) % nr, (c + (nc \div 2)) % nc)
    IN  Table(nr, nc, E)

\* Two shapes numpy can broadcast together, and the shape of the result.
Broadcastable(s, t) == \A k \in 1 .. 2 : s[k] = t[k] \/ s[k] = 1 \/ t[k] = 1

\* np.multiply(buf1ft, np.conj(buf2ft)) with numpy's broadcasting.
MultiplyConj(buf1ft, buf2ft) ==
    LET E(r, c) ==
            CMul(At(buf1ft, IF Len(buf1ft) = 1 THEN 0 ELSE r,
                    IF Len(buf1ft[1]) = 1 THEN 0 ELSE c),
                 CConj(At(buf2ft, IF Len(buf2ft) = 1 THEN 0 ELSE r,
                          IF Len(buf2ft[1]) = 1 THEN 0 ELSE c)))
    IN  Table(Max(Len(buf1ft), Len(buf2ft)), Max(Len(buf1ft[1]), Len(buf2ft[1])), E)

(***************************************************************************)
(* fourier_reg.py                                                          *)
(***************************************************************************)
\* np.abs(image) ** 2, ravelled (line 62).
AbsRavel(image) ==
    Array([k \in 1 .. Len(image) * Len(image[1]) |->
             Abs2(At(image, (k - 1) \div Len(image[1]), (k - 1) % Len(image[1])))])

\* Line 64: the smallest index at which the ravelled array has its maximum.
FirstMax(flat) ==
    CHOOSE k \in 1 .. Len(flat) :
        /\ \A j \in 1 .. Len(flat) : ~AbsLess(flat[k], flat[j])
        /\ \A j \in 1 .. k - 1 : AbsLess(flat[j], flat[k])

\* first_max_index(np.abs(image)): <<ymax, xmax>>, counted from 0.
first_max_index(image) ==
    The({<<(k - 1) \div Len(image[1]), (k - 1) % Len(image[1])>> :
            k \in {FirstMax(AbsRavel(image))}})

\* fourier_pad(imFT, outsize) without its last factor ft_val, which is
\* returned beside the array.
fourier_pad(imFT, outsize) ==
    LET n_in == Shape(imFT)
        Padded(shifted, center_in) ==
            LET cc == [k \in 1 .. 2 |->
                         ((center_in[k] * outsize[k]) \div n_in[k]) - center_in[k]]
                E(r, c) ==
                    IF /\ Max(cc[1], 0) <= r /\ r < Min(cc[1] + n_in[1], outsize[1])
                       /\ Max(cc[2], 0) <= c /\ c < Min(cc[2] + n_in[2], outsize[2])
                    THEN At(shifted, r - cc[1], c - cc[2]) ELSE CZero
            IN  IfftShift(Table(outsize[1], outsize[2], E))
    IN  [imout |-> The({Padded(shifted, first_max_index(shifted)) :
                           shifted \in {FftShift(imFT)}}),
         ft_val |-> RMul(Rat(outsize[1], n_in[1]), Rat(outsize[2], n_in[2]))]

\* Lines 165 and 168: np.fft.ifftshift(np.arange(n)) - np.floor(n / 2).
FreqArr(n, k) == ((k + (n \div 2)) % n) - (n \div 2)

\* dftups(input_image, nor, noc, usfac, roff, coff).
dftups(input_image, nor, noc, usfac, roff, coff) ==
    LET nr == Len(input_image)
        nc == Len(input_image[1])
        Term(a, b, r, c) ==
            CMul(At(input_image, r, c),
                 Exp2Pi(RNeg(RAdd(Rat((a - roff) * FreqArr(nr, r), nr * usfac),
                                  Rat(FreqArr(nc, c) * (b - coff), nc * usfac)))))
        Out(a, b) == LET T(r, c) == Term(a, b, r, c) IN Sum2(nr, nc, T)
    IN  Table(IF nor = 0 THEN nr ELSE nor, IF noc = 0 THEN nc ELSE noc, Out)


\* The index of the peak taken as the shift, without the wrap to negative
\* shifts.
IndexAsShift(n, k) == k

\* Lines 259-260: Nr[k] for an axis of length n,
\* np.fft.ifftshift(np.arange(-np.fix(n / 2), np.ceil(n / 2))).
ShiftArr(n, k) == ((k + (n \div 2)) % n) - (n \div 2)

\* Lines 283-284: Nr2[k], np.fft.ifftshift(np.arange(-np.fix(n), np.ceil(n))).
ShiftArr2(n, k) == ((k + n) % (2 * n)) - n

\* np.round: to the nearest integer, a half to the even neighbour.
RoundHalfEven(x) ==
    LET fl == x.n \div x.d
        twice == 2 * (x.n - fl * x.d)
    IN  IF twice < x.d THEN fl
        ELSE IF twice > x.d THEN fl + 1
        ELSE IF fl % 2 = 0 THEN fl ELSE fl + 1

\* np.ceil(usfac * 1.5) and np.fix(np.ceil(usfac * 1.5) / 2).
UpWindow(usfac) == (3 * usfac + 1) \div 2

DftShift(usfac) == UpWindow(usfac) \div 2

\* Lines 261-265: no registration.
Coarse0(buf1ft, buf2ft) ==
    [CCmax |-> The({LET T(r, c) == At(ft_mult, r, c)
                    IN  Sum2(Len(ft_mult), Len(ft_mult[1]), T) :
                       ft_mult \in {MultiplyConj(buf1ft, buf2ft)}}),
     row_shift |-> Zero, col_shift |-> Zero, raised |-> "no"]

\* Lines 266-274: the peak of the cross-correlation, to one pixel.  CC
\* stands for CC * nr * nc of the source.  Indexing Nr or Nc beyond its
\* length raises IndexError.
Coarse1(buf1ft, buf2ft) ==
    LET nr == Len(buf2ft)
        nc == Len(buf2ft[1])
        Peak(CC, idx) ==
            IF idx[1] >= nr \/ idx[2] >= nc
            THEN [CCmax |-> CZero, row_shift |-> Zero, col_shift |-> Zero,
                  raised |-> "IndexError"]
            ELSE [CCmax |-> At(CC, idx[1], idx[2]),
                  row_shift |-> Rat(ShiftArr(nr, idx[1]), 1),
                  col_shift |-> Rat(ShiftArr(nc, idx[2]), 1), raised |-> "no"]
    IN  The({Peak(CC, first_max_index(CC)) :
                CC \in {IFFT2Sum(MultiplyConj(buf1ft, buf2ft))}})

\* Lines 288-306: the peak of the cross-correlation upsampled around the
\* estimate est by the matrix-multiply transform.
Refined(ft_mult, usfac, est) ==
    LET row_shift == Rat(RoundHalfEven(RMul(est.row_shift, Rat(usfac, 1))), usfac)
        col_shift == Rat(RoundHalfEven(RMul(est.col_shift, Rat(usfac, 1))), usfac)
        dftshift == DftShift(usfac)
        Peak(CC, loc) ==
            [CCmax |-> CConj(At(CC, loc[1], loc[2])),
             row_shift |-> RAdd(row_shift, Rat(loc[1] - dftshift, usfac)),
             col_shift |-> RAdd(col_shift, Rat(loc[2] - dftshift, usfac)),
             raised |-> "no"]
    IN  The({Peak(CC, first_max_index(CC)) :
                CC \in {dftups(ft_mult, UpWindow(usfac), UpWindow(usfac), usfac,
                               dftshift - RMul(row_shift, Rat(usfac, 1)).n,
                               dftshift - RMul(col_shift, Rat(usfac, 1)).n)}})

\* The shifts left as they were found.
KeepShifts(res, nr, nc) == res

\* Lines 307-312: the shift along an axis of length 1 is set to zero.
ZeroOnSingleAxis(res, nr, nc) ==
    [res EXCEPT !.row_shift = IF nr = 1 THEN Zero ELSE @,
                !.col_shift = IF nc = 1 THEN Zero ELSE @]

\* Lines 275-312: the peak on the grid of half pixels, refined for
\* usfac > 2.
Coarse2(buf1ft, buf2ft, usfac) ==
    LET nr == Len(buf2ft)
        nc == Len(buf2ft[1])
        Half2(CC, idx) ==
            [CCmax |-> At(CC, idx[1], idx[2]),
             row_shift |-> Rat(ShiftArr2(nr, idx[1]), 2),
             col_shift |-> Rat(ShiftArr2(nc, idx[2]), 2), raised |-> "no"]
        Estimate(ft_mult) ==
            The({Half2(CC, first_max_index(CC)) :
                    CC \in {IFFT2Sum(fourier_pad(ft_mult, <<2 * nr, 2 * nc>>).imout)}})
        Final(ft_mult) ==
            IF usfac > 2 THEN Refined(ft_mult, usfac, Estimate(ft_mult))
            ELSE Estimate(ft_mult)
    IN  The({ZeroOnSingleAxis(Final(ft_mult), nr, nc) :
                ft_mult \in {MultiplyConj(buf1ft, buf2ft)}})

\* Lines 318-325: buf2ft times the phase ramp of the shift.  The factor
\* exp(1j * phase_diff) of line 323 is kept apart as CCmax, whose angle
\* phase_diff is.  An empty array stands for a ramp that is not on the grid
\* of the 8th roots.
Ramped(buf2ft, usfac, row_shift, col_shift) ==
    LET nr == Len(buf2ft)
        nc == Len(buf2ft[1])
        Phase(r, c) == RNeg(RAdd(RMul(row_shift, Rat(ShiftArr(nr, r), nr)),
                                 RMul(col_shift, Rat(ShiftArr(nc, c), nc))))
        E(r, c) == CMul(At(buf2ft, r, c), Exp2Pi(Phase(r, c)))
    IN  IF usfac = 0 THEN buf2ft
        ELSE IF \A r \in 0 .. nr - 1 : \A c \in 0 .. nc - 1 : OnGrid(Phase(r, c))
        THEN Table(nr, nc, E)
        ELSE <<>>

\* dftregistration(buf1ft, buf2ft, usfac).  The result holds row_shift and
\* col_shift, CCmax (from which line 315 computes error with rg00 and rf00
\* and line 316 phase_diff = np.angle(CCmax)) as a complex number times
\* the positive factor CCscale, and registered_fft without its factor
\* exp(1j * phase_diff).  np.multiply raises ValueError for shapes that
\* cannot be broadcast together.
dftregistration(buf1ft, buf2ft, usfac) ==
    IF ~Broadcastable(Shape(buf1ft), Shape(buf2ft))
    THEN [raised |-> "ValueError"]
    ELSE LET Tail2(res) ==
                 IF res.raised # "no" THEN [raised |-> res.raised]
                 ELSE [raised |-> "no", row_shift |-> res.row_shift,
                       col_shift |-> res.col_shift, CCmax |-> res.CCmax,
                       CCscale |->
                           IF usfac \in {1, 2}
                           THEN Rat(Len(buf2ft) * Len(buf2ft[1]),
                                    Max(Len(buf1ft), Len(buf2ft))
                                    * Max(Len(buf1ft[1]), Len(buf2ft[1])))
                           ELSE One,
                       registered_fft |->
                           Ramped(buf2ft, usfac, res.row_shift, res.col_shift)]
         IN  The({Tail2(res) :
                     res \in {IF usfac = 0 THEN Coarse0(buf1ft, buf2ft)
                              ELSE IF usfac = 1 THEN Coarse1(buf1ft, buf2ft)
                              ELSE Coarse2(buf1ft, buf2ft, usfac)}})

(***************************************************************************)
(* dftregistration on a pair of images                                     *)
(***************************************************************************)
\* The largest pixel value of an image.
MaxVal == 1

\* The shapes of the images: the axis lengths whose transforms, padded
\* and upsampled, stay on the 8th roots of unity.
Shapes == {<<1, 1>>, <<1, 2>>, <<2, 1>>, <<2, 2>>, <<1, 4>>, <<4, 1>>}

Images(shape) ==
    {Array([r \in 1 .. shape[1] |->
               Array([c \in 1 .. shape[2] |-> f[(r - 1) * shape[2] + c]])]) :
        f \in [1 .. shape[1] * shape[2] -> 0 .. MaxVal]}

\* One bright pixel at the origin; pixel values that repeat along the
\* image; the same value everywhere.
Delta(shape) ==
    LET F(r, c) == IF r = 0 /\ c = 0 THEN 1 ELSE 0 IN Table(shape[1], shape[2], F)

Ramp(shape) ==
    LET F(r, c) == (r * shape[2] + c) % (MaxVal + 1) IN Table(shape[1], shape[2], F)

Ones(shape) ==
    LET F(r, c) == 1 IN Table(shape[1], shape[2], F)

\* The image moved circularly by dy rows and dx columns.
Displaced(image, dy, dx) ==
    LET nr == Len(image)
        nc == Len(image[1])
        F(r, c) == At(image, (r - dy) % nr, (c - dx) % nc)
    IN  Table(nr, nc, F)

\* The displacements of at most half an axis.
Displacements(shape) ==
    {<<dy, dx>> : dy \in -(shape[1] \div 2) .. shape[1] \div 2,
                  dx \in -(shape[2] \div 2) .. shape[2] \div 2}

UsFactors == {0, 1, 2, 4}

\* The padded and upsampled transforms of images of these shapes stay on
\* the 8th roots of unity.
Supported(s, t, u) ==
    \A k \in 1 .. 2 : (RootOrder % (Max(1, u) * Max(s[k], t[k]))) = 0

InitReg ==
    /\ \E shape \in Shapes : image1 \in Images(shape)
    /\ \/ \E d \in Displacements(Shape(image1)) :
              /\ displacement = d
              /\ image2 = Displaced(image1, d[1], d[2])
       \/ /\ displacement = <<>>
          /\ image2 \in {Delta(shape) : shape \in Shapes} \cup {Ramp(shape) : shape \in Shapes}
    /\ reg_usfac \in {u \in UsFactors : Supported(Shape(image1), Shape(image2), u)}
    /\ reg = <<>>
    /\ StrainIdle
    /\ PreIdle
    /\ StackIdle
    /\ MoreIdle

\* The call dftregistration(fft2(image1), fft2(image2), usfac).
Register ==
    /\ image1 # <<>>
    /\ reg = <<>>
    /\ \E r \in {dftregistration(FFT2(image1), FFT2(image2), reg_usfac)} : reg' = r
    /\ UNCHANGED <<strainVars, preVars, moreVars, stackVars, image1, image2, displacement, reg_usfac>>

NextReg == Register

SpecReg == InitReg /\ [][NextReg]_vars

(***************************************************************************)
(* get_shift_stack, the iterations of its prange loop interleaved          *)
(***************************************************************************)
\* The number of images of the stack.
StackSize == 2

StackShapes == {<<2, 2>>, <<1, 4>>}

\* The images of a stack: a bright pixel at every place, an image of one
\* value and an image of repeating values.
StackImages(shape) ==
    {Displaced(Delta(shape), d[1], d[2]) : d \in Displacements(shape)}
        \cup {Ones(shape), Ramp(shape)}

Samplings == {1, 2, 4}

\* Lines 373-374: np.zeros((no_im, no_im)).
ZeroMatrix(no_im, z) == Array([i \in 1 .. no_im |-> Array([j \in 1 .. no_im |-> z])])

\* np.zeros of nr rows and nc columns (line 803 for the scan positions).
ZeroMatrixOf(nr, nc) == Array([i \in 1 .. nr |-> Array([j \in 1 .. nc |-> 0])])

InitStack ==
    /\ \E shape \in StackShapes :
          /\ image_stack \in [1 .. StackSize -> StackImages(shape)]
          /\ sampling \in {u \in Samplings : Supported(shape, shape, u)}
    /\ row_stack = ZeroMatrix(StackSize, Zero)
    /\ col_stack = ZeroMatrix(StackSize, Zero)
    /\ jj = [i \in 1 .. StackSize |-> 0]
    /\ written = ZeroMatrix(StackSize, 0)
    /\ returned = FALSE
    /\ StrainIdle
    /\ PreIdle
    /\ RegIdle
    /\ MoreIdle

no_im == Len(image_stack)

\* Lines 377-380 for ii = i - 1 at its next jj.  rs and cs are the
\* iteration's own.
Pair(i) ==
    /\ image_stack # <<>>
    /\ ~returned
    /\ jj[i] < no_im
    /\ \E j \in {jj[i] + 1} :
          \E r \in {dftregistration(FFT2(image_stack[i]), FFT2(image_stack[j]), sampling)} :
              /\ row_stack' = [row_stack EXCEPT ![i] = StoreAt(@, j, r.row_shift)]
              /\ col_stack' = [col_stack EXCEPT ![i] = StoreAt(@, j, r.col_shift)]
              /\ written' = [written EXCEPT ![i][j] = @ + 1]
    /\ jj' = [jj EXCEPT ![i] = @ + 1]
    /\ UNCHANGED <<strainVars, preVars, moreVars, regVars, image_stack, sampling, returned>>

\* Line 381, once every iteration of the prange loop has ended.
ReturnStacks ==
    /\ image_stack # <<>>
    /\ ~returned
    /\ \A i \in 1 .. no_im : jj[i] = no_im
    /\ returned' = TRUE
    /\ UNCHANGED <<strainVars, preVars, moreVars, regVars, image_stack, sampling, row_stack,
                   col_stack, jj, written>>

NextStack == (\E i \in 1 .. no_im : Pair(i)) \/ ReturnStacks

SpecStack == InitStack /\ [][NextStack]_vars

(***************************************************************************)
(* log_sobel4D, the iterations of its prange loop interleaved              *)
(***************************************************************************)
\* The largest length of an axis of the dataset.
MaxAxis == 2

\* The scan dimensions the docstring names: the first two or the last two.
ScanDims == {<<0, 1>>, <<2, 3>>, <<-2, -1>>}

\* Line 799: scan_dims[scan_dims < 0] = 4 + scan_dims[scan_dims < 0].
FromFront(sd) == [k \in 1 .. 2 |-> IF sd[k] < 0 THEN 4 + sd[k] ELSE sd[k]]

\* Line 800.
sum_dims == FromFront(scan_dims)[1] + FromFront(scan_dims)[2]

\* The shape of np.transpose(a, (2, 3, 0, 1)) for an array a of the shape.
Transposed(shape) == <<shape[3], shape[4], shape[1], shape[2]>>

\* The shape of data4D in the loop (lines 801-802).
WorkShape == IF sum_dims < 2 THEN Transposed(ls_shape) ELSE ls_shape

\* Lines 804-805: the numbers of iterations of the two loops.
NoJJ == WorkShape[FromFront(scan_dims)[2] + 1]

NoII == WorkShape[FromFront(scan_dims)[1] + 1]

InitLogSobel ==
    /\ ls_shape \in [1 .. 4 -> 1 .. MaxAxis]
    /\ scan_dims \in ScanDims
    /\ \E sd \in {FromFront(scan_dims)} : \E work \in {IF sd[1] + sd[2] < 2 THEN Transposed(ls_shape) ELSE ls_shape} :
          /\ data_lsb = ZeroMatrixOf(work[3], work[4])
          /\ ls_ii = Array([j \in 1 .. work[sd[2] + 1] |-> 0])
    /\ ls_result = <<>>
    /\ StrainIdle
    /\ PreIdle
    /\ RegIdle
    /\ StackIdle
    /\ AloneIdle

\* Lines 806-817 for jj = j - 1 at its next ii: the slice [:, :, ii, jj] is
\* read, filtered and assigned; an index past an axis raises IndexError.
FilterPattern(j) ==
    /\ ls_shape # <<>>
    /\ ls_result = <<>>
    /\ ls_ii[j] < NoII
    /\ \E i \in {ls_ii[j] + 1} :
          IF i <= WorkShape[3] /\ j <= WorkShape[4]
          THEN /\ data_lsb' = [data_lsb EXCEPT ![i][j] = @ + 1]
               /\ ls_ii' = [ls_ii EXCEPT ![j] = i]
               /\ UNCHANGED ls_result
          ELSE /\ ls_result' = [raised |-> "IndexError"]
               /\ UNCHANGED <<data_lsb, ls_ii>>
    /\ UNCHANGED <<strainVars, preVars, fourierVars, aloneVars, ls_shape, scan_dims>>

\* Lines 818-820, once every iteration of the prange loop has ended.
ReturnLsb ==
    /\ ls_shape # <<>>
    /\ ls_result = <<>>
    /\ \A j \in 1 .. NoJJ : ls_ii[j] = NoII
    /\ ls_result' = [raised |-> "no",
                     shape |-> IF sum_dims < 2 THEN Transposed(WorkShape) ELSE WorkShape]
    /\ UNCHANGED <<strainVars, preVars, fourierVars, aloneVars, ls_shape, scan_dims, data_lsb, ls_ii>>

NextLogSobel == (\E j \in 1 .. NoJJ : FilterPattern(j)) \/ ReturnLsb

SpecLogSobel == InitLogSobel /\ [][NextLogSobel]_vars


(***************************************************************************)
(* dftregistration on a pair of transforms                                 *)
(***************************************************************************)
\* The entries of the transforms: 0, 1, 1j and -1.
Entries == {CZero, CInt(1), W(2), CInt(-1)}

SpectrumShapes == {<<1, 2>>, <<2, 1>>}

Spectra(shape) ==
    {Array([r \in 1 .. shape[1] |->
               Array([c \in 1 .. shape[2] |-> f[(r - 1) * shape[2] + c]])]) :
        f \in [1 .. shape[1] * shape[2] -> Entries]}

InitSpectra ==
    /\ \E shape \in SpectrumShapes :
          /\ arg_buf1ft \in Spectra(shape)
          /\ arg_buf2ft \in Spectra(shape)
    /\ reg_usfac \in UsFactors
    /\ reg = <<>>
    /\ image1 = <<>>
    /\ image2 = <<>>
    /\ displacement = <<>>
    /\ StrainIdle
    /\ PreIdle
    /\ StackIdle
    /\ LogSobelIdle
    /\ PadIdle
    /\ GeneralIdle
    /\ OldIdle
    /\ EdgeIdle

\* The call dftregistration(buf1ft, buf2ft, usfac).
RegisterSpectra ==
    /\ arg_buf1ft # <<>>
    /\ reg = <<>>
    /\ \E r \in {dftregistration(arg_buf1ft, arg_buf2ft, reg_usfac)} : reg' = r
    /\ UNCHANGED <<strainVars, preVars, stackVars, logSobelVars, spectraVars, padVars, generalVars,
                   oldVars, edgeVars, image1, image2, displacement, reg_usfac>>

NextSpectra == RegisterSpectra

SpecSpectra == InitSpectra /\ [][NextSpectra]_vars


(***************************************************************************)
(* fourier_pad on a transform of any shape                                 *)
(***************************************************************************)
\* The longest axis of the transform passed in.
MaxSize == 3

\* The longest axis of the output.
MaxOut == 4

\* One row, one column, or two rows and two columns.
PadShapes ==
    {<<1, n>> : n \in 1 .. MaxSize} \cup {<<n, 1>> : n \in 1 .. MaxSize} \cup {<<2, 2>>}

InitPad ==
    /\ \E shape \in PadShapes : pad_imFT \in Spectra(shape)
    /\ pad_outsize \in (1 .. MaxOut) \X (1 .. MaxOut)
    /\ pad_imout = <<>>
    /\ StrainIdle
    /\ PreIdle
    /\ RegIdle
    /\ StackIdle
    /\ LogSobelIdle
    /\ SpectraIdle
    /\ GeneralIdle
    /\ OldIdle
    /\ EdgeIdle

\* The call fourier_pad(imFT, outsize).
Pad ==
    /\ pad_imFT # <<>>
    /\ pad_imout = <<>>
    /\ \E res \in {fourier_pad(pad_imFT, pad_outsize)} : pad_imout' = res
    /\ UNCHANGED <<strainVars, preVars, fourierVars, logSobelVars, spectraVars,
                   generalVars, oldVars, edgeVars, pad_imFT, pad_outsize>>

NextPad == Pad

SpecPad == InitPad /\ [][NextPad]_vars


(***************************************************************************)
(* strain4D_general, lines 1097-1103: the strain of one scan point          *)
(***************************************************************************)
\* The peaks of the mean pattern about its central peak, two of them, at
\* whole pixels.
MeanPeaks == {<<<<Spacing, 0>>, <<0, Spacing>>>>, <<<<Spacing, 1>>, <<-1, Spacing>>>>}

\* The peaks of the pattern of a scan point about its central peak.
ScanPeaks ==
    {<<<<Rat(a, 1), Rat(b, 1)>>, <<Rat(c, 1), Rat(d, 1)>>>> :
        a \in {Spacing - 1, Spacing}, b \in -1 .. 1, c \in -1 .. 1,
        d \in {Spacing, Spacing + 1}}

\* Lines 1017-1020 for a rotangle of q quarter turns.
rotmatrix(q) ==
    LET cos == <<1, 0, -1, 0>>[(q % 4) + 1]
        sin == <<0, 1, 0, -1>>[(q % 4) + 1]
    IN  IntMat(cos, -sin, sin, cos)

\* Lines 1097-1099.
scan_strain(mean, scan, q) ==
    Array([k \in 1 .. 4 |-> RSub(MatMul(Lstsq(mean, scan), rotmatrix(q))[k], i_matrix[k])])

\* Lines 1100-1103.
GeneralStrain(s) ==
    [xx |-> s[1],
     xy |-> RDiv(RAdd(s[2], s[3]), Rat(2, 1)),
     th |-> RDiv(RSub(s[2], s[3]), Rat(2, 1)),
     yy |-> s[4]]

InitGeneral ==
    /\ peaks_mean \in MeanPeaks
    /\ peaks_scan \in ScanPeaks
    /\ rotangle \in 0 .. 3
    /\ strain_kk = <<>>
    /\ StrainIdle
    /\ PreIdle
    /\ RegIdle
    /\ StackIdle
    /\ LogSobelIdle
    /\ SpectraIdle
    /\ PadIdle
    /\ OldIdle
    /\ EdgeIdle

\* Lines 1097-1103 for the scan point kk.
StrainOfPoint ==
    /\ peaks_mean # <<>>
    /\ strain_kk = <<>>
    /\ \E s \in {scan_strain(peaks_mean, peaks_scan, rotangle)} :
          strain_kk' = [scan_strain |-> s, e |-> GeneralStrain(s)]
    /\ UNCHANGED <<strainVars, preVars, fourierVars, logSobelVars, spectraVars, padVars,
                   oldVars, edgeVars, peaks_mean, peaks_scan, rotangle>>

NextGeneral == StrainOfPoint

SpecGeneral == InitGeneral /\ [][NextGeneral]_vars


(***************************************************************************)
(* strain_log and strain_oldstyle                                          *)
(***************************************************************************)
OldEntries == {"strain_log", "strain_oldstyle"}

\* Line 514: the tuple fit_nbed_disks returns.
Returned(f) == <<f.fitted_disk_list, f.center_position, f.fit_deviation, f.lcbed>>

\* _, _, pattern_axes = values (lines 689, 697, 726 and 733): an unpacking
\* into three names raises ValueError unless there are three values.
UnpackAxes(values) ==
    IF Len(values) = Len(<<"_", "_", "pattern_axes">>)
    THEN [raised |-> "no", axes |-> values[Len(values)]]
    ELSE [raised |-> "ValueError"]

\* np.zeros(no_of_disks), lines 679-682 and 717-720.
ZeroArray(len) == Array([k \in 1 .. len |-> Zero])

InitOld ==
    /\ old_entry \in OldEntries
    /\ ROI = Array([p \in 1 .. NPix |-> FALSE])
    /\ reference_axes \in {<<Zero>>, BasisA, SingularBasis}
    /\ data4D = OrderPatterns
    /\ \E n \in 0 .. MaxROI : data4D_ROI \in [1 .. n -> OrderPatterns]
    /\ processed = {}
    /\ seeds = Seeds4
    /\ nan_cutoff = Zero
    /\ disk_size = 1
    /\ pc = "reference"
    /\ ii = 0
    /\ ref_axes = <<>>
    /\ inverse_axes = <<>>
    /\ lsc_pattern = NoPattern
    /\ pattern_axes = <<>>
    /\ std = <<>>
    /\ e_ROI = [xx |-> ZeroArray(Len(data4D_ROI)), xy |-> ZeroArray(Len(data4D_ROI)),
                th |-> ZeroArray(Len(data4D_ROI)), yy |-> ZeroArray(Len(data4D_ROI))]
    /\ fit_std = <<>>
    /\ e_map = [xx |-> NanArray(NPix), xy |-> NanArray(NPix),
                th |-> NanArray(NPix), yy |-> NanArray(NPix)]
    /\ stage = [xx |-> "nan", xy |-> "nan", th |-> "nan", yy |-> "nan"]
    /\ fitted_disk_list = <<>>
    /\ nancount = 0
    /\ fit = NoFit
    /\ PreIdle
    /\ RegIdle
    /\ StackIdle
    /\ LogSobelIdle
    /\ SpectraIdle
    /\ PadIdle
    /\ GeneralIdle
    /\ EdgeIdle

\* What strain_log and strain_oldstyle leave alone.
oldFixed == <<ROI, reference_axes, data4D, seeds, nan_cutoff, disk_size, lsc_pattern, std,
              fit_std, e_map, stage, fitVars, orderVars, preVars, fourierVars,
              logSobelVars, spectraVars, padVars, generalVars, edgeVars, old_entry>>

\* Lines 690 and 692 (727 and 729): np.linalg.inv of the reference.
InvertReference(axes) ==
    /\ ref_axes' = axes
    /\ IF InvRaises(axes)
       THEN pc' = "raised" /\ inverse_axes' = inverse_axes
       ELSE /\ inverse_axes' = MatInv(axes)
            /\ pc' = IF Len(data4D_ROI) = 0 THEN "done" ELSE "loop"

\* Lines 685-692 (723-729); mean is the mean pattern of the points.
OldReference(mean) ==
    /\ old_entry # "none"
    /\ pc = "reference"
    /\ IF Len(reference_axes) < 2
       THEN \E u \in {UnpackAxes(Returned(FitPattern(mean, Zero)))} :
                IF u.raised # "no"
                THEN pc' = "raised" /\ UNCHANGED <<ref_axes, inverse_axes>>
                ELSE InvertReference(u.axes)
       ELSE InvertReference(reference_axes)
    /\ UNCHANGED <<oldFixed, ii, pattern_axes, e_ROI>>

\* Lines 694-705 (731-739): one iteration of the loop over the points.
\* np.matmul raises ValueError for a scalar operand.
OldLoopStep ==
    /\ old_entry # "none"
    /\ pc = "loop"
    /\ \E u \in {UnpackAxes(Returned(FitPattern(data4D_ROI[ii + 1], Zero)))} :
          IF u.raised # "no" \/ Len(u.axes) # 4
          THEN pc' = "raised" /\ UNCHANGED <<ii, pattern_axes, e_ROI>>
          ELSE \E s \in {SPattern(TPattern(u.axes, inverse_axes))} :
                  /\ pattern_axes' = u.axes
                  /\ e_ROI' = [xx |-> StoreAt(e_ROI.xx, ii + 1, StrainXX(s)),
                               xy |-> StoreAt(e_ROI.xy, ii + 1, StrainXY(s)),
                               th |-> StoreAt(e_ROI.th, ii + 1, StrainTh(s)),
                               yy |-> StoreAt(e_ROI.yy, ii + 1, StrainYY(s))]
                  /\ ii' = ii + 1
                  /\ pc' = IF ii + 1 = Len(data4D_ROI) THEN "done" ELSE "loop"
    /\ UNCHANGED <<oldFixed, ref_axes, inverse_axes>>

NextOld == (\E mean \in data4D : OldReference(mean)) \/ OldLoopStep

SpecOld == InitOld /\ [][NextOld]_vars


(***************************************************************************)
(* sort_edges                                                              *)
(***************************************************************************)
\* The edge maps have EdgeRows rows and EdgeCols columns, and edge_distance
\* is at most MaxDistance.
EdgeRows == 2

EdgeCols == 3

MaxDistance == 3

EdgeMaps ==
    {Array([r \in 1 .. EdgeRows |-> Array([c \in 1 .. EdgeCols |-> f[(r - 1) * EdgeCols + c]])]) :
        f \in [1 .. EdgeRows * EdgeCols -> BOOLEAN]}

\* Lines 839-845: the edge pixels <<y, x>> in the order of the rows.
RECURSIVE PointsUpTo(_, _)
PointsUpTo(map, p) ==
    IF p = 0 THEN <<>>
    ELSE LET y == (p - 1) \div Len(map[1])
             x == (p - 1) % Len(map[1])
         IN  IF map[y + 1][x + 1] THEN Append(PointsUpTo(map, p - 1), <<y, x>>)
             ELSE PointsUpTo(map, p - 1)

point_list == PointsUpTo(edge_map, Len(edge_map) * Len(edge_map[1]))

no_points == Len(point_list)

\* The indices of the points for which truth is b, in their order:
\* point_list[truth_list] and point_list[~truth_list].
RECURSIVE Selected(_, _, _)
Selected(truth, b, k) ==
    IF k = 0 THEN <<>>
    ELSE IF truth[k] = b THEN Append(Selected(truth, b, k - 1), k)
         ELSE Selected(truth, b, k - 1)

\* Lines 858-861, squared.
Dist2(a, b) == (a[1] - b[1]) * (a[1] - b[1]) + (a[2] - b[2]) * (a[2] - b[2])

\* Lines 862-868: the first of the other points nearest to the last point
\* of the chain.
Nearest(last, others) ==
    CHOOSE j \in 1 .. Len(others) :
        /\ \A m \in 1 .. Len(others) :
               Dist2(point_list[others[j]], last) <= Dist2(point_list[others[m]], last)
        /\ \A m \in 1 .. j - 1 :
               Dist2(point_list[others[m]], last) > Dist2(point_list[others[j]], last)

\* Line 863: min_dist < edge_distance, with min_dist the root of d2.
Closer(d2, distance) == distance > 0 /\ d2 < distance * distance

\* Lines 874-877: the mask of the points listed.
MaskOf(list) ==
    Array([r \in 1 .. Len(edge_map) |->
             Array([c \in 1 .. Len(edge_map[1]) |->
                      \E k \in 1 .. Len(list) : point_list[list[k]] = <<r - 1, c - 1>>])])

InitEdges ==
    /\ edge_map \in EdgeMaps
    /\ edge_distance \in 0 .. MaxDistance
    /\ truth_list = <<>>
    /\ edge_list_1 = <<>>
    /\ se_pc = "start"
    /\ se_ii = 0
    /\ outer_inner = <<>>
    /\ StrainIdle
    /\ PreIdle
    /\ RegIdle
    /\ StackIdle
    /\ LogSobelIdle
    /\ SpectraIdle
    /\ PadIdle
    /\ GeneralIdle
    /\ OldIdle

edgeFixed == <<strainVars, preVars, fourierVars, logSobelVars, spectraVars, padVars,
               generalVars, oldVars, edge_map, edge_distance>>

\* Lines 839-851: the chain starts at the first edge pixel; yy[0] raises
\* IndexError when there is none.
StartChain ==
    /\ se_pc = "start"
    /\ IF no_points = 0
       THEN se_pc' = "raised" /\ UNCHANGED <<truth_list, edge_list_1>>
       ELSE /\ truth_list' = Array([k \in 1 .. no_points |-> k = 1])
            /\ edge_list_1' = <<1>>
            /\ se_pc' = "loop"
    /\ UNCHANGED <<edgeFixed, se_ii, outer_inner>>

\* Lines 853-871: one iteration of the loop.  np.amin raises ValueError
\* for an array without entries.
ChainStep ==
    /\ se_pc = "loop"
    /\ se_ii < no_points
    /\ \E others \in {Selected(truth_list, FALSE, no_points)} :
          IF others = <<>>
          THEN se_pc' = "raised" /\ UNCHANGED <<truth_list, edge_list_1, se_ii>>
          ELSE \E last \in {point_list[edge_list_1[Len(edge_list_1)]]} :
               \E point_number \in {others[Nearest(last, others)]} :
                   /\ IF Closer(Dist2(point_list[point_number], last), edge_distance)
                      THEN /\ edge_list_1' = Append(edge_list_1, point_number)
                           /\ truth_list' = [truth_list EXCEPT ![point_number] = TRUE]
                      ELSE UNCHANGED <<truth_list, edge_list_1>>
                   /\ se_ii' = se_ii + 1
                   /\ UNCHANGED se_pc
    /\ UNCHANGED <<edgeFixed, outer_inner>>

\* Lines 872-886.
SplitEdges ==
    /\ se_pc = "loop"
    /\ se_ii = no_points
    /\ \E list_1 \in {Selected(truth_list, TRUE, no_points)} :
       \E list_2 \in {Selected(truth_list, FALSE, no_points)} :
           outer_inner' =
               IF Len(list_1) > Len(list_2)
               THEN [outer_edge |-> MaskOf(list_1), inner_edge |-> MaskOf(list_2)]
               ELSE [outer_edge |-> MaskOf(list_2), inner_edge |-> MaskOf(list_1)]
    /\ se_pc' = "done"
    /\ UNCHANGED <<edgeFixed, truth_list, edge_list_1, se_ii>>

NextEdges == StartChain \/ ChainStep \/ SplitEdges

SpecEdges == InitEdges /\ [][NextEdges]_vars

(***************************************************************************)
(* Properties of strain_in_ROI                                             *)
(***************************************************************************)
Half(x) == RMul(x, Rat(1, 2))

\* The matrix S that the values stored for point ii stand for:
\* e_xx = -S00, e_yy = -S11, e_xy = -(S01 + S10), e_th = S01 - S10.
StoredS ==
    <<RNeg(e_ROI.xx[ii]), Half(RSub(e_ROI.th[ii], e_ROI.xy[ii])),
      RNeg(Half(RAdd(e_ROI.xy[ii], e_ROI.th[ii]))), RNeg(e_ROI.yy[ii])>>

StoredT == <<RAdd(StoredS[1], One), StoredS[2], StoredS[3], RAdd(StoredS[4], One)>>

\* The loop has just processed point ii and its lattice basis is not NaN.
PointFitted ==
    /\ pc \in {"loop", "assemble"}
    /\ ii >= 1
    /\ AxesFitted(pattern_axes)

\* C1: for a ROI point whose observed basis P is not NaN, the values stored
\* before smoothing are e_xx = -S00, e_yy = -S11, e_xy = -(S01 + S10) and
\* e_th = S01 - S10 with S = T - I and T = P inverse(R): the matrix T read
\* back from the stored values satisfies T R = P.
C1_StrainFormula ==
    PointFitted => MatMul(StoredT, ref_axes) = pattern_axes

C1_Witness ==
    /\ PointFitted
    /\ ii = 2
    /\ e_ROI.xy[ii] # Zero
    /\ e_ROI.th[ii] # Zero
    /\ e_ROI.xx[ii] # e_ROI.yy[ii]

RAbs(x) == [n |-> Abs(x.n), d |-> x.d]

\* |x - c| <= tol.
Within(x, c, tol) == ~RLess(tol, RAbs(RSub(x, c)))

Tolerance == Rat(1, 200)

\* C2: a 4-disk hexagonal pattern whose positions carry a 2 % strain along
\* x, fitted against the undistorted lattice, gives e_xx within 0.005 of
\* 0.02 and e_yy, e_xy, e_th within 0.005 of 0, in every orientation of
\* the reference lattice.
C2_HexStrainRecovered ==
    (/\ pc = "assemble"
     /\ ii = 1
     /\ reference_axes \in HexBases
     /\ lsc_pattern = LatticePattern(Strained(reference_axes))
     /\ AxesFitted(pattern_axes))
    => /\ Within(e_ROI.xx[1], AppliedStrain, Tolerance)
       /\ Within(e_ROI.yy[1], Zero, Tolerance)
       /\ Within(e_ROI.xy[1], Zero, Tolerance)
       /\ Within(e_ROI.th[1], Zero, Tolerance)

\* C3: the strain of an invertible basis B against reference B is zero in
\* all four components.
C3_SelfStrainZero ==
    (PointFitted /\ pattern_axes = ref_axes)
    => /\ e_ROI.xx[ii] = Zero
       /\ e_ROI.yy[ii] = Zero
       /\ e_ROI.xy[ii] = Zero
       /\ e_ROI.th[ii] = Zero

C3_Witness ==
    /\ PointFitted
    /\ pattern_axes = ref_axes
    /\ ref_axes[2] # ref_axes[3]
    /\ ref_axes[1] # ref_axes[4]
    /\ e_ROI.xy[ii] = Zero

CompNames == {"xx", "xy", "th", "yy"}

NoNaN(map) == \A p \in 1 .. Len(map) : ~IsNaN(map[p])

ZeroOutsideROI(map) == \A p \in 1 .. NPix : ~ROI[p] => map[p] = Zero

\* C4: the returned maps hold no NaN and are exactly zero at
\* every pixel outside the ROI, and before smoothing no pixel outside the
\* ROI holds a non-zero value.
C4_ZeroOutsideAfterSmoothing ==
    \A c \in CompNames :
        /\ pc = "done" => NoNaN(e_map[c]) /\ ZeroOutsideROI(e_map[c])
        /\ stage[c] = "zeroed" => ZeroOutsideROI(e_map[c])

\* Immediately before smoothing, map c holds the stored value at the fitted
\* ROI points, 0 at the ROI points left NaN by a failed fit and 0 outside.
ZeroFilled(c) ==
    \A p \in 1 .. NPix :
        e_map[c][p] = IF ROI[p] /\ ~IsNaN(e_ROI[c][RoiRank(ROI, p)])
                      THEN e_ROI[c][RoiRank(ROI, p)] ELSE Zero

\* C5: immediately before smoothing each map holds 0 at every ROI point
\* whose fit failed and at every point outside the ROI and has no NaN, and
\* a map is smoothed only after that substitution.
C5_ZeroBeforeSmoothing ==
    /\ [](\A c \in CompNames : stage[c] = "zeroed" => ZeroFilled(c) /\ NoNaN(e_map[c]))
    /\ [][\A c \in CompNames :
            (stage[c] # "smoothed" /\ stage'[c] = "smoothed")
            => /\ ZeroFilled(c) /\ NoNaN(e_map[c])
               /\ e_map'[c] = GaussianFilter(e_map[c])]_vars

C5_Witness ==
    /\ stage.th = "zeroed"
    /\ NoOfDisks(ROI) = 2
    /\ IsNaN(e_ROI.th[1])
    /\ e_ROI.th[2] # Zero /\ ~IsNaN(e_ROI.th[2])
    /\ \E p \in 1 .. NPix : ROI[p] /\ RoiRank(ROI, p) = 1 /\ e_map.th[p] = Zero

C8_SingularReferenceTolerated ==
    (Len(ref_axes) = 4 /\ Det(ref_axes) = Zero) => pc # "raised"

(***************************************************************************)
(* Properties of fit_nbed_disks                                            *)
(***************************************************************************)
\* The pixels (y, x) of the correlation image within distance disk_size of
\* seed k, the boundary included.
DiskPixels(k) ==
    {q \in (0 .. ImgSize - 1) \X (0 .. ImgSize - 1) :
        ((q[1] - seeds.disk_list[k][2]) ^ 2) + ((q[2] - seeds.disk_list[k][1]) ^ 2)
            <= disk_size ^ 2}

PixelValue(q) == PixelAt(lsc_pattern, seeds.disk_list, q[1], q[2])

\* The j-th smallest value among the pixels S.
Ranked(S, j) ==
    CHOOSE v \in {PixelValue(q) : q \in S} :
        /\ Cardinality({q \in S : PixelValue(q) < v}) < j
        /\ j <= Cardinality({q \in S : PixelValue(q) <= v})

\* max / median over the pixels S.
RatioOver(S) ==
    RDiv(Rat(Ranked(S, Cardinality(S)), 1),
         IF Cardinality(S) % 2 = 1
         THEN Rat(Ranked(S, (Cardinality(S) + 1) \div 2), 1)
         ELSE Rat(Ranked(S, Cardinality(S) \div 2)
                  + Ranked(S, (Cardinality(S) \div 2) + 1), 2))

\* Seed k fails the intensity test.
TooFaint(k) ==
    \E S \in {DiskPixels(k)} : RLess(RatioOver(S), RAdd(One, nan_cutoff))

no_pos == Len(seeds.disk_list)

CentreFaint == \A k \in 1 .. no_pos : seeds.pos_list[k] = <<0, 0>> => TooFaint(k)

AllNaN(arr) == Len(arr) >= 1 /\ \A k \in 1 .. Len(arr) : IsNaN(arr[k])

AllNaNRows(rows) ==
    Len(rows) >= 1 /\ \A k \in 1 .. Len(rows) : IsNaN(rows[k][1]) /\ IsNaN(rows[k][2])

NoNaNRows(rows) == \A k \in 1 .. Len(rows) : ~IsNaN(rows[k][1]) /\ ~IsNaN(rows[k][2])

\* C7 as stated: with no seed fit, or with some seed fit but not the
\* (0, 0) disk, fit_nbed_disks returns all four outputs as NaN.
C7_AllOutputsNaN ==
    (pc = "returned" /\ (nancount = no_pos \/ CentreFaint))
    => /\ AllNaNRows(fitted_disk_list)
       /\ AllNaN(fit.center_position)
       /\ AllNaN(fit.fit_deviation)
       /\ AllNaN(fit.lcbed)

\* C7, amended: fit_nbed_disks returns in both failure cases; with no seed
\* fit all four outputs are NaN; with some seed fit but not the (0, 0) disk
\* the centre position, the fit deviation and the lattice basis are NaN and
\* the fitted positions are those of the seeds that were fit, without NaN.
C7_FailureOutputs ==
    /\ (pc = "returned" /\ nancount = no_pos)
       => /\ AllNaNRows(fitted_disk_list) /\ Len(fitted_disk_list) = no_pos
          /\ AllNaN(fit.center_position)
          /\ AllNaN(fit.fit_deviation)
          /\ AllNaN(fit.lcbed)
    /\ (pc = "returned" /\ nancount < no_pos /\ CentreFaint)
       => /\ NoNaNRows(fitted_disk_list) /\ Len(fitted_disk_list) = no_pos - nancount
          /\ AllNaN(fit.center_position)
          /\ AllNaN(fit.fit_deviation)
          /\ AllNaN(fit.lcbed)

C7_Witness ==
    /\ pc = "returned"
    /\ nancount = 1
    /\ no_pos = 4
    /\ CentreFaint
    /\ Len(fitted_disk_list) = 3
    /\ AllNaN(fit.lcbed)

\* C9: a seed is marked unfit (NaN position) exactly when max / median of
\* the correlation map over the pixels within distance disk_size of it, the
\* boundary included, is strictly below 1 + nan_cutoff; otherwise the fitted
\* centre is its position.
C9_CutoffTest ==
    pc = "solve"
    => \A k \in 1 .. no_pos :
          IF TooFaint(k)
          THEN fitted_disk_list[k] = <<NaN, NaN>>
          ELSE fitted_disk_list[k] = lsc_pattern.par[k]

C9_Witness ==
    /\ pc = "solve"
    /\ nancount = 2
    /\ lsc_pattern.off = <<1, 0>>
    /\ disk_size = 1
    /\ \E k \in 1 .. no_pos :
          /\ RatioOver(DiskPixels(k)) = RAdd(One, nan_cutoff)
          /\ fitted_disk_list[k] = lsc_pattern.par[k]
    /\ nan_cutoff = DefaultNanCutoff

\* C10 as stated: with the (0, 0) disk fit, fit deviation and lattice basis
\* are not NaN exactly when the fraction of unfit disks is strictly below
\* 50 %, and a call in which exactly half of the disks fit gets a basis.
C10_HalfStillSolved ==
    (pc = "returned" /\ ~CentreFaint)
    => /\ (~AllNaN(fit.lcbed) /\ ~AllNaN(fit.fit_deviation)) <=> (2 * nancount < no_pos)
       /\ 2 * nancount = no_pos => ~AllNaN(fit.lcbed)

\* C10, amended: with the (0, 0) disk fit, the lattice basis is not NaN
\* exactly when the fraction of unfit disks is strictly below 50 %; the fit
\* deviation is NaN whenever the basis is, and a pair of values otherwise; a
\* call in which exactly half of the disks fit gets a NaN basis and deviation.
C10_StrictlyBelowHalf ==
    (pc = "returned" /\ ~CentreFaint)
    => /\ NoNaN(fit.lcbed) <=> (2 * nancount < no_pos)
       /\ 2 * nancount >= no_pos => fit.lcbed = <<NaN>> /\ fit.fit_deviation = <<NaN>>
       /\ 2 * nancount < no_pos => Len(fit.lcbed) = 4 /\ Len(fit.fit_deviation) = 2

C10_Witness ==
    /\ pc = "returned"
    /\ ~CentreFaint
    /\ 2 * nancount = no_pos
    /\ AllNaN(fit.lcbed)
    /\ AllNaN(fit.fit_deviation)

(***************************************************************************)
(* Properties of the loop of strain_in_ROI taken in any order              *)
(***************************************************************************)
\* The entries of ROI point k hold what lines 630-653 compute from the
\* pattern of point k and the shared reference, or NaN before its iteration.
OwnResult(k) ==
    \A f \in {FitPattern(data4D_ROI[k], nan_cutoff)} :
    \A e \in {PointStrain(f.lcbed, inverse_axes)} :
        IF k \in processed /\ AxesFitted(f.lcbed)
        THEN /\ fit_std[k] = f.fit_deviation
             /\ e_ROI.xx[k] = e.xx /\ e_ROI.xy[k] = e.xy
             /\ e_ROI.th[k] = e.th /\ e_ROI.yy[k] = e.yy
        ELSE /\ fit_std[k] = <<NaN, NaN>>
             /\ \A c \in CompNames : IsNaN(e_ROI[c][k])

\* C12: the iteration of a ROI point reads its own pattern and the shared
\* seeds and reference only and writes its own index of the per-point
\* arrays only, so in whatever order the points are taken the arrays hold
\* at each point the value that follows from that point's pattern, and the
\* returned maps are the ones assembled from these arrays.
C12_OrderIndependent ==
    /\ [](pc \in {"loop", "assemble", "done"}
            => \A k \in 1 .. NoOfDisks(ROI) : OwnResult(k))
    /\ [](pc = "done"
            => \A c \in CompNames :
                   e_map[c] = GaussianFilter(NanToZero(
                                  ScatterROI(NanArray(NPix), ROI, e_ROI[c]))))
    /\ [][\A k \in 1 .. NoOfDisks(ROI) :
            (k \notin processed /\ k \in processed')
            => /\ UNCHANGED <<inverse_axes, data4D_ROI, seeds, nan_cutoff, e_map>>
               /\ \A j \in (1 .. NoOfDisks(ROI)) \ {k} :
                      /\ fit_std'[j] = fit_std[j]
                      /\ \A c \in CompNames : e_ROI'[c][j] = e_ROI[c][j]]_vars

\* The second ROI point has been processed before the first one, and the
\* two points give different values.
C12_Witness ==
    /\ pc = "loop"
    /\ processed = {2}
    /\ ~IsNaN(e_ROI.xx[2]) /\ e_ROI.xx[2] # Zero
    /\ IsNaN(e_ROI.xx[1])
    /\ data4D_ROI[1] # data4D_ROI[2]
    /\ data4D_ROI[1].peaks = Bright

(***************************************************************************)
(* Properties of the preconditioning                                       *)
(***************************************************************************)
ClampOps == {"clamp_above", "clamp_below", "above_to_median"}

\* The two clamps of lines 634-639 applied to image, each with the median
\* of the image it is applied to.
TwoSidedClamp(image, f) ==
    ClampedBelow(ClampedAbove(image, f, RMedian(image)), f,
                 RMedian(ClampedAbove(image, f, RMedian(image))))

\* C11: without a reference basis the ROI-mean pattern passes through the
\* operations every scan-point pattern passes through (logarithm, Gaussian
\* blur, Sobel, the two-sided clamp) before it is correlated, so the image
\* handed to the correlator is the two-sided clamp of the Sobel image.
C11_ReferenceLikeEveryPoint ==
    (proc = "mean_cbed" /\ NextOp = "cross_corr")
    => /\ Append(steps, "cross_corr") = Program("strain_in_ROI", FALSE)
       /\ pattern = TwoSidedClamp(sobel_out, med_factor)

\* C19: in strain_in_ROI, log_sobel4D, strain4D_general and cbed_filter no
\* clamp is applied before the Sobel filter, and the image handed to the
\* correlator has been clamped after the Sobel filter.
C19_ClampOnlyAfterSobel ==
    proc \in {"strain_in_ROI", "log_sobel4D", "strain4D_general", "cbed_filter"}
    => /\ \A i \in 1 .. Len(steps) :
              steps[i] \in ClampOps => \E j \in 1 .. i - 1 : steps[j] = "sobel"
       /\ NextOp = "cross_corr"
              => \E i \in 1 .. Len(steps) :
                     steps[i] \in ClampOps /\ \E j \in 1 .. i - 1 : steps[j] = "sobel"

\* C20: after the two clamps of strain_in_ROI, log_sobel4D and
\* strain4D_general, with m the median of the Sobel image and f the factor,
\* a pixel that exceeded f m equals f m, a pixel that was below m / f equals
\* m / f, any other pixel is unchanged, and both clamps used the median m.
C20_ClampToMedianBand ==
    (/\ proc \in {"strain_in_ROI", "log_sobel4D", "strain4D_general"}
     /\ Len(steps) >= 2
     /\ steps[Len(steps)] = "clamp_below")
    => \A m \in {RMedian(sobel_out)} :
           /\ medians = <<m, m>>
           /\ \A i \in 1 .. Len(pattern) :
                  pattern[i] = IF RLess(RMul(med_factor, m), sobel_out[i])
                               THEN RMul(med_factor, m)
                               ELSE IF RLess(sobel_out[i], RDiv(m, med_factor))
                               THEN RDiv(m, med_factor)
                               ELSE sobel_out[i]

(***************************************************************************)
(* Properties of dftregistration                                           *)
(***************************************************************************)
\* The circular autocorrelation of an image at the lag (k, l).
Autocorr(image, k, l) ==
    LET nr == Len(image)
        nc == Len(image[1])
        Terms == [p \in 1 .. nr * nc |->
                     At(image, (p - 1) \div nc, (p - 1) % nc)
                     * At(image, (((p - 1) \div nc) + k) % nr, (((p - 1) % nc) + l) % nc)]
        Total[n \in 0 .. nr * nc] == IF n = 0 THEN 0 ELSE Total[n - 1] + Terms[n]
    IN  Total[nr * nc]

\* The autocorrelation is largest in absolute value at the lag zero only.
UniquePeak(image) ==
    \A k \in 0 .. Len(image) - 1 : \A l \in 0 .. Len(image[1]) - 1 :
        <<k, l>> # <<0, 0>> => Abs(Autocorr(image, k, l)) < Autocorr(image, 0, 0)

\* dftregistration has returned for an image and its copy displaced by
\* (dy, dx), each in [-floor(n / 2), ceil(n / 2) - 1], with usfac = 1.
RegisteredCopy ==
    /\ reg # <<>>
    /\ reg_usfac = 1
    /\ displacement # <<>>
    /\ \A k \in 1 .. 2 :
          /\ displacement[k] >= -(Shape(image1)[k] \div 2)
          /\ displacement[k] <= ((Shape(image1)[k] + 1) \div 2) - 1

\* The shift is returned, has the magnitude of the displacement and moves
\* image2 back onto image1; registered_fft is the transform of image1 and
\* its factor exp(1j * phase_diff) is 1, CCmax being real and not negative.
ShiftRecovered ==
    /\ reg.raised = "no"
    /\ RAbs(reg.row_shift) = Rat(Abs(displacement[1]), 1)
    /\ RAbs(reg.col_shift) = Rat(Abs(displacement[2]), 1)
    /\ reg.row_shift.d = 1
    /\ reg.col_shift.d = 1
    /\ Displaced(image2, reg.row_shift.n, reg.col_shift.n) = image1
    /\ reg.registered_fft = FFT2(image1)
    /\ reg.CCmax[1] >= 0
    /\ reg.CCmax = CInt(reg.CCmax[1])

\* C13 as stated: for every image and every displacement in range,
\* dftregistration with usfac = 1 recovers the displacement of the copy.
C13_RecoversShift == RegisteredCopy => ShiftRecovered

\* C13, amended: the displacement is recovered for every image whose
\* circular autocorrelation is largest at the lag zero only.
C13_RecoversShiftOfUniquePeak == (RegisteredCopy /\ UniquePeak(image1)) => ShiftRecovered

C13_Witness ==
    /\ RegisteredCopy
    /\ UniquePeak(image1)
    /\ Shape(image1) = <<1, 4>>
    /\ displacement = <<0, 1>>
    /\ reg.raised = "no"
    /\ reg.col_shift = Rat(-1, 1)

\* C16: for every usfac (0, 1, 2 and above 2) a call that returns gives
\* row_shift = 0 when buf2ft has one row and col_shift = 0 when it has one
\* column.
C16_SingleAxisShiftZero ==
    (reg # <<>> /\ reg.raised = "no") =>
        /\ Len(image2) = 1 => reg.row_shift = Zero
        /\ Len(image2[1]) = 1 => reg.col_shift = Zero

C16_Witness ==
    /\ reg # <<>>
    /\ reg_usfac = 4
    /\ Shape(image1) = <<1, 2>>
    /\ Shape(image2) = <<1, 2>>
    /\ reg.raised = "no"
    /\ reg.row_shift = Zero
    /\ reg.col_shift # Zero

\* The two transforms differ in shape.
ShapesDiffer == Shape(image1) # Shape(image2)

\* C17: called with transforms of differing shapes, dftregistration fails
\* with the error of the shape mismatch, at the first operation on the two
\* transforms, and returns no shifts, for broadcast-compatible shapes too.
C17_DifferingShapesFail ==
    (reg # <<>> /\ ShapesDiffer) => reg.raised = "ValueError"

(***************************************************************************)
(* Properties of get_shift_stack                                           *)
(***************************************************************************)
\* C14: the matrices get_shift_stack returns have a zero diagonal, for
\* every stack and sampling, images of one value or of repeating values
\* included.
C14_ZeroDiagonal ==
    returned =>
        \A i \in 1 .. no_im : row_stack[i][i] = Zero /\ col_stack[i][i] = Zero

\* C15: the matrices get_shift_stack returns are skew-symmetric, shifts of
\* half an axis and correlations with tied maxima included.
C15_SkewSymmetric ==
    returned =>
        \A i, j \in 1 .. no_im :
            /\ row_stack[i][j] = RNeg(row_stack[j][i])
            /\ col_stack[i][j] = RNeg(col_stack[j][i])

\* The pairs (i, j) whose shifts have been assigned.
Done(i, j) == j <= jj[i]

\* The entries hold the shifts of their own pair of images, each assigned
\* once, and zero before.
OwnShifts ==
    image_stack # <<>> =>
        \A i, j \in 1 .. no_im :
            /\ written[i][j] = IF Done(i, j) THEN 1 ELSE 0
            /\ \A r \in {IF Done(i, j)
                         THEN dftregistration(FFT2(image_stack[i]), FFT2(image_stack[j]),
                                              sampling)
                         ELSE [row_shift |-> Zero, col_shift |-> Zero]} :
                   row_stack[i][j] = r.row_shift /\ col_stack[i][j] = r.col_shift

\* A step assigns the entries of one pair only, the next one of its row,
\* and leaves the images alone.
OnePairAssigned ==
    image_stack # <<>> =>
        /\ image_stack' = image_stack
        /\ sampling' = sampling
        /\ \E i \in 1 .. no_im :
              \A a, b \in 1 .. no_im :
                  <<a, b>> # <<i, jj[i] + 1>> =>
                      /\ row_stack'[a][b] = row_stack[a][b]
                      /\ col_stack'[a][b] = col_stack[a][b]
                      /\ written'[a][b] = written[a][b]

\* C18: every pair (i, j) is registered on its own: its entries come from
\* images i and j alone, no other entry is assigned with them, each entry
\* is assigned once, and the matrices returned are the same however the
\* iterations of the outer loop interleave.
C18_IsolatedPairs == [](OwnShifts) /\ [][OnePairAssigned]_vars

C18_Witness ==
    /\ image_stack # <<>>
    /\ jj[1] = 1
    /\ jj[2] = no_im
    /\ image_stack[1] # image_stack[2]
    /\ row_stack[2][1] # Zero
    /\ written[2][1] = 1
    /\ written[1][2] = 0

(***************************************************************************)
(* Properties of the preconditioning of invalid patterns                   *)
(***************************************************************************)
\* The pattern has been handed on: to cross_corr, or to the caller by the
\* return of a procedure that does not correlate.
HandedOn ==
    \/ \E k \in 1 .. Len(steps) : steps[k] = "cross_corr"
    \/ NextOp = "return"

\* C21: a pattern that is empty or holds a value that is not finite is
\* refused with an error before it is correlated or returned for the fits.
C21_InvalidInputFailsFast == (proc # "none" /\ ~valid_input) => ~HandedOn

(***************************************************************************)
(* Properties of log_sobel4D                                               *)
(***************************************************************************)
\* The lengths of the two scan axes of the dataset as passed in.
ScanLengths ==
    IF sum_dims < 2 THEN <<ls_shape[1], ls_shape[2]>> ELSE <<ls_shape[3], ls_shape[4]>>

\* C22: whether the scan axes are the first two or the last two, and
\* whatever the lengths of the axes, log_sobel4D raises no IndexError,
\* filters the pattern of every scan position once and returns an array of
\* the shape passed in.
C22_DimensionAgnostic ==
    ls_result # <<>> =>
        /\ ls_result.raised = "no"
        /\ ls_result.shape = ls_shape
        /\ \A a \in 1 .. ScanLengths[1] : \A b \in 1 .. ScanLengths[2] : data_lsb[a][b] = 1

(***************************************************************************)
(* Properties of the lattice solve of fit_nbed_disks                       *)
(***************************************************************************)
\* The seeds that pass the intensity test, in order.
RECURSIVE FitFrom(_)
FitFrom(k) ==
    IF k > no_pos THEN <<>>
    ELSE (IF TooFaint(k) THEN <<>> ELSE <<k>>) \o FitFrom(k + 1)

\* The first seed with Miller index (0, 0).
FirstCentre == CHOOSE k \in 1 .. no_pos :
                   /\ seeds.pos_list[k] = <<0, 0>>
                   /\ \A j \in 1 .. k - 1 : seeds.pos_list[j] # <<0, 0>>

\* The position fitted for seed k relative to the centre disk, with y
\* pointing up.
YUp(k) ==
    <<RSub(lsc_pattern.par[k][1], lsc_pattern.par[FirstCentre][1]),
      RSub(RNeg(lsc_pattern.par[k][2]), RNeg(lsc_pattern.par[FirstCentre][2]))>>

\* C23: the centre returned is the position fitted for the first (0, 0)
\* seed, in pixel coordinates with y not negated; the basis is solved from
\* the fitted positions with y negated, the centre's too, before the centre
\* is subtracted.
C23_YAxisConsistent ==
    (pc = "returned" /\ ~CentreFaint) =>
        /\ fit.center_position = lsc_pattern.par[FirstCentre]
        /\ 2 * nancount < no_pos =>
               \A kept \in {FitFrom(1)} :
                   fit.lcbed = Lstsq(Array([k \in 1 .. Len(kept) |-> seeds.pos_list[kept[k]]]),
                                     Array([k \in 1 .. Len(kept) |-> YUp(kept[k])]))

C23_Witness ==
    /\ pc = "returned"
    /\ ~CentreFaint
    /\ nancount = 1
    /\ seeds = Seeds4Rev
    /\ fit.center_position = <<CentreX, CentreY>>
    /\ fit.lcbed = BasisB

\* The seed with the Miller index m.
SeedOf(m) == CHOOSE k \in 1 .. no_pos : seeds.pos_list[k] = m

\* The matrix B of the lattice the fitted positions lie on, read off the
\* positions of the (1, 0) and (0, 1) disks.
LatticeOfPar ==
    <<YUp(SeedOf(<<1, 0>>))[1], YUp(SeedOf(<<1, 0>>))[2],
      YUp(SeedOf(<<0, 1>>))[1], YUp(SeedOf(<<0, 1>>))[2]>>

\* Every fitted position, y negated and the centre subtracted, is the
\* product of its Miller index and B.
OnLattice(B) ==
    \A k \in 1 .. no_pos :
        ~TooFaint(k) =>
            YUp(k) = <<RAdd(RMul(Rat(seeds.pos_list[k][1], 1), B[1]),
                            RMul(Rat(seeds.pos_list[k][2], 1), B[3])),
                       RAdd(RMul(Rat(seeds.pos_list[k][1], 1), B[2]),
                            RMul(Rat(seeds.pos_list[k][2], 1), B[4]))>>

\* The Miller indices of the fitted disks have rank 2.
FittedRank2 ==
    \E j, k \in 1 .. no_pos :
        /\ ~TooFaint(j)
        /\ ~TooFaint(k)
        /\ seeds.pos_list[j][1] * seeds.pos_list[k][2]
               # seeds.pos_list[j][2] * seeds.pos_list[k][1]

\* The lattice is solved from positions that lie on the lattice B.
ExactFit(B) ==
    /\ pc = "returned"
    /\ ~CentreFaint
    /\ 2 * nancount < no_pos
    /\ FittedRank2
    /\ OnLattice(B)

\* C24 as stated: positions that lie exactly on a lattice B, any 2 x 2
\* matrix, give the basis B and the fit deviation (0, 0).
C24_ExactFitAnyLattice ==
    \A B \in {LatticeOfPar} :
        ExactFit(B) => fit.lcbed = B /\ fit.fit_deviation = <<Zero, Zero>>

\* C24, amended: positions that lie exactly on a lattice B give the basis
\* B; the fit deviation is 0 on each axis on which B has a non-zero entry
\* and NaN on an axis on which both entries of B are 0, every disk being
\* excluded from the ratios of that axis.
C24_ExactFit ==
    \A B \in {LatticeOfPar} :
        ExactFit(B) =>
            /\ fit.lcbed = B
            /\ Len(fit.fit_deviation) = 2
            /\ \A c \in 1 .. 2 :
                   fit.fit_deviation[c] = IF B[c] = Zero /\ B[c + 2] = Zero THEN NaN ELSE Zero

C24_Witness ==
    /\ ExactFit(LatticeOfPar)
    /\ nancount = 1
    /\ seeds = Seeds4
    /\ fit.lcbed = IntMat(MaxEntry, 0, 1, -1)
    /\ fit.fit_deviation = <<Zero, Zero>>


(***************************************************************************)
(* Properties of the refinement of dftregistration                         *)
(***************************************************************************)
\* The cross-correlation of the two images upsampled usfac times, at the
\* shift of p / usfac rows and q / usfac columns, as the sum over the
\* frequencies of the cross-power spectrum.
UpsampledCC(ft_mult, usfac, p, q) ==
    LET nr == Len(ft_mult)
        nc == Len(ft_mult[1])
        T(r, c) == CMul(At(ft_mult, r, c),
                        Exp2Pi(RAdd(Rat(FreqArr(nr, r) * p, nr * usfac),
                                    Rat(FreqArr(nc, c) * q, nc * usfac))))
    IN  Sum2(nr, nc, T)

\* The half-pixel estimate of the call, rounded to the grid of reg_usfac.
RoundedEstimate ==
    LET est == Coarse2(arg_buf1ft, arg_buf2ft, 2)
    IN  [row_shift |-> Rat(RoundHalfEven(RMul(est.row_shift, Rat(reg_usfac, 1))), reg_usfac),
         col_shift |-> Rat(RoundHalfEven(RMul(est.col_shift, Rat(reg_usfac, 1))), reg_usfac)]

SpectraRegistered == arg_buf1ft # <<>> /\ reg # <<>> /\ reg.raised = "no"

\* The returned shift is the rounded estimate plus k / usfac.
WithinWindow(shift, rounded) ==
    \E k \in -DftShift(reg_usfac) .. DftShift(reg_usfac) :
        shift = RAdd(rounded, Rat(k, reg_usfac))

\* C25: with usfac > 2 the upsampled cross-correlation is evaluated on a
\* window around the rounded half-pixel estimate: the returned shift is
\* that estimate plus k / usfac with |k| <= fix(ceil(1.5 usfac) / 2), and
\* the returned peak is the upsampled cross-correlation at the returned
\* shift; with usfac = 2 the returned shift is the half-pixel estimate.
C25_WindowAroundEstimate ==
    SpectraRegistered =>
        \A est \in {RoundedEstimate} :
            /\ reg_usfac = 2 =>
                  /\ reg.row_shift = est.row_shift
                  /\ reg.col_shift = est.col_shift
            /\ reg_usfac > 2 =>
                  /\ Len(arg_buf2ft) > 1 => WithinWindow(reg.row_shift, est.row_shift)
                  /\ Len(arg_buf2ft[1]) > 1 => WithinWindow(reg.col_shift, est.col_shift)
                  /\ reg.CCmax = UpsampledCC(MultiplyConj(arg_buf1ft, arg_buf2ft), reg_usfac,
                                             RMul(reg.row_shift, Rat(reg_usfac, 1)).n,
                                             RMul(reg.col_shift, Rat(reg_usfac, 1)).n)


(***************************************************************************)
(* Properties of fourier_pad                                               *)
(***************************************************************************)
\* C26: the array fourier_pad returns has the requested size and holds the
\* zero-frequency component of its input at index [0, 0], times
\* prod(outsize / insize).
C26_ZeroFrequencyAtOrigin ==
    pad_imout # <<>> =>
        /\ Shape(pad_imout.imout) = pad_outsize
        /\ At(pad_imout.imout, 0, 0) = At(pad_imFT, 0, 0)
        /\ pad_imout.ft_val = RMul(Rat(pad_outsize[1], Len(pad_imFT)),
                                   Rat(pad_outsize[2], Len(pad_imFT[1])))


(***************************************************************************)
(* Properties of the fit-deviation array of strain_in_ROI                  *)
(***************************************************************************)
\* Row k holds the fit deviation of the k-th ROI point when the lattice
\* basis of that point holds no NaN, and NaN otherwise.
RowOfPoint(k) ==
    \A f \in {FitPattern(data4D_ROI[k], nan_cutoff)} :
        fit_std[k] = IF NoNaN(f.lcbed) THEN f.fit_deviation ELSE <<NaN, NaN>>

\* C27: fit_std has one row for each ROI point, in the order of the ROI
\* mask in which the strain values are scattered into the maps; row k is
\* the fit deviation of point k exactly when the basis of point k is not
\* NaN and stays NaN otherwise, and the assembly of the maps (scatter,
\* zero fill, smoothing) leaves the array as it is.
C27_FitDeviationRows ==
    /\ [](pc # "raised"
            => /\ Len(fit_std) = NoOfDisks(ROI)
               /\ \A k \in 1 .. NoOfDisks(ROI) :
                      /\ Len(fit_std[k]) = 2
                      /\ k \in processed => RowOfPoint(k)
                      /\ k \notin processed => fit_std[k] = <<NaN, NaN>>)
    /\ [](\A c \in CompNames : \A p \in 1 .. NPix :
            (stage[c] = "scattered" /\ ROI[p])
                => e_map[c][p] = e_ROI[c][RoiRank(ROI, p)])
    /\ [][pc = "assemble" => fit_std' = fit_std]_vars

\* The call has returned; the first point failed and the second was
\* fitted, and the maps are smoothed while the first row is still NaN.
C27_Witness ==
    /\ pc = "done"
    /\ NoOfDisks(ROI) = 2
    /\ fit_std[1] = <<NaN, NaN>>
    /\ NoNaNRows(<<fit_std[2]>>)
    /\ \A c \in CompNames : NoNaN(e_map[c])


(***************************************************************************)
(* Properties of the strain values of strain4D_general                     *)
(***************************************************************************)
\* C28: the four values strain4D_general stores for a scan point are the
\* ones the formula of strain_in_ROI gives for the same matrix S:
\* e_xx = -S[0,0], e_yy = -S[1,1], e_xy = -(S[0,1] + S[1,0]) and
\* e_theta = S[0,1] - S[1,0].
C28_SameTensorAsROI ==
    strain_kk # <<>> =>
        /\ strain_kk.e.xx = StrainXX(strain_kk.scan_strain)
        /\ strain_kk.e.yy = StrainYY(strain_kk.scan_strain)
        /\ strain_kk.e.xy = StrainXY(strain_kk.scan_strain)
        /\ strain_kk.e.th = StrainTh(strain_kk.scan_strain)


(***************************************************************************)
(* Properties of strain_log and strain_oldstyle                            *)
(***************************************************************************)
\* At every point every disk is fitted, and the reference is the default
\* or a matrix that has an inverse.
ValidOldInput ==
    /\ old_entry # "none"
    /\ Len(data4D_ROI) >= 1
    /\ Len(reference_axes) < 2 \/ ~InvRaises(reference_axes)
    /\ \A k \in 1 .. Len(data4D_ROI) :
           NoNaNRows(FitPattern(data4D_ROI[k], Zero).fitted_disk_list)

\* C29: on such input strain_log and strain_oldstyle raise nothing, and
\* the four arrays they return hold at each point the values the formula of
\* strain_in_ROI gives for the basis fit_nbed_disks returns last.
C29_OldEntriesComplete ==
    ValidOldInput =>
        /\ pc # "raised"
        /\ pc = "done" =>
              \A k \in 1 .. Len(data4D_ROI) :
              \A e \in {PointStrain(FitPattern(data4D_ROI[k], Zero).lcbed, inverse_axes)} :
                  /\ e_ROI.xx[k] = e.xx /\ e_ROI.xy[k] = e.xy
                  /\ e_ROI.th[k] = e.th /\ e_ROI.yy[k] = e.yy


(***************************************************************************)
(* Properties of sort_edges                                                *)
(***************************************************************************)
EdgePixels(mask) ==
    {<<r, c>> \in (1 .. Len(mask)) \X (1 .. Len(mask[1])) : mask[r][c]}

\* The pixels of the chain, in the order in which they were taken.
ChainPixel(j) == <<point_list[edge_list_1[j]][1] + 1, point_list[edge_list_1[j]][2] + 1>>

\* The chain starts at the first edge pixel; each further pixel is the
\* first of the edge pixels not yet taken that are nearest to the pixel
\* before it, and is nearer than edge_distance; the chain ends where no
\* pixel is left or the nearest one is not nearer than edge_distance.
GreedyChain ==
    /\ edge_list_1[1] = 1
    /\ \A j \in 2 .. Len(edge_list_1) :
           \A rest \in {(1 .. no_points) \ {edge_list_1[m] : m \in 1 .. j - 1}} :
           \A last \in {point_list[edge_list_1[j - 1]]} :
           \A d2 \in {Dist2(point_list[edge_list_1[j]], last)} :
               /\ edge_list_1[j] \in rest
               /\ edge_distance > 0 /\ d2 < edge_distance * edge_distance
               /\ \A k \in rest :
                      \/ d2 < Dist2(point_list[k], last)
                      \/ d2 = Dist2(point_list[k], last) /\ edge_list_1[j] <= k
    /\ \A k \in (1 .. no_points) \ {edge_list_1[m] : m \in 1 .. Len(edge_list_1)} :
           \A d2 \in {Dist2(point_list[k], point_list[edge_list_1[Len(edge_list_1)]])} :
               edge_distance <= 0 \/ d2 >= edge_distance * edge_distance

\* C30: for an edge map with at least one edge pixel, and any
\* edge_distance, sort_edges raises nothing and returns two masks that are
\* disjoint and together hold exactly the edge pixels; one of them is the
\* greedy nearest-neighbour chain from the first edge pixel, and the outer
\* one has at least as many pixels as the inner one.
C30_EdgesSplit ==
    (edge_map # <<>> /\ EdgePixels(edge_map) # {}) =>
        /\ se_pc # "raised"
        /\ se_pc = "done" =>
              \A outer \in {EdgePixels(outer_inner.outer_edge)} :
              \A inner \in {EdgePixels(outer_inner.inner_edge)} :
              \A chain \in {{ChainPixel(j) : j \in 1 .. Len(edge_list_1)}} :
                  /\ outer \cap inner = {}
                  /\ outer \cup inner = EdgePixels(edge_map)
                  /\ GreedyChain
                  /\ chain \in {outer, inner}
                  /\ Cardinality(outer) >= Cardinality(inner)

=============================================================================
